---- MODULE Spec2Model ----
(***************************************************************************)
(* The v4 UDP discovery transport (p2p/discover/v4_udp.go): the reply      *)
(* matcher registry run by UDPv4.loop and its timer goroutine, the read    *)
(* loop with the packet handlers, the bond bookkeeping and Close.          *)
(*                                                                         *)
(* Time is the reading of time.Now() in ticks.  The code compares          *)
(* deadlines with that reading and allows for it to jump backwards (the    *)
(* errClockWarp branch), so the clock here can do so too; the timer keeps  *)
(* running on elapsed time, hence its firing time moves with a jump.       *)
(***************************************************************************)
EXTENDS Integers, Sequences, FiniteSets, TLC

\* ---------------------------------------------------------------- bounds
MaxMatchers == 2
MaxPackets == 2
MaxJumps == 1
\* node IDs a lookup can come across, by their distance to the target
MaxDistance == 20

\* ---------------------------------------------- program constants, scaled
\* cfg.ReplyTimeout (respTimeout, 750 ms), in ticks
replyTimeout == 1
\* 24 h, in ticks
bondExpiration == 2
ntpFailureThreshold == 32
\* ntpWarningCooldown (10 min), in ticks
ntpWarningCooldown == 2
maxFindnodeFailures == 5
\* cfg.PingBackDelay, in ticks
pingBackDelay == 1
\* capacity of addReplyMatcher, gotreply, gotkey, gotnodes and listUpdate
\* (10 in the code), scaled so that a full buffer is within reach
ChanCap == 2
\* the table's bucket size and v4wire.MaxNeighbors
bucketSize == 16
\* the lookup's concurrency factor
alpha == 3
MaxNeighbors == 12

Nil == 0

\* remote endpoints: the peer this node sends requests to, and the sources
\* inbound datagrams can carry (the peer itself, another key on the peer's
\* ip:port, and the peer's key on another ip)
Peer == [id |-> 1, ip |-> 1, port |-> 1]
Sources == { Peer, [id |-> 2, ip |-> 1, port |-> 1], [id |-> 1, ip |-> 2, port |-> 1] }

PongPacket == "pong"
NeighborsPacket == "neighbors"
ENRResponsePacket == "enrresponse"
PingPacket == "ping"
FindnodePacket == "findnode"
ENRRequestPacket == "enrrequest"

errExpired == "expired"
errUnsolicitedReply == "unsolicited reply"
errUnknownNode == "unknown node"
errTimeout == "RPC timeout"
errClockWarp == "reply deadline too far in the future"
errClosed == "socket closed"
ErrNil == "nil"

\* the errors of v4wire.Decode
errBadHash == "bad hash"
errBadSig == "bad signature"
errMalformed == "rlp: malformed"
DecodeErrors == { errBadHash, errBadSig, errMalformed }

\* the keys of t.errors looked at: the errors a packet can be rejected with
ErrorKeys == { errExpired, errUnsolicitedReply, errUnknownNode } \cup DecodeErrors

VARIABLES
    now,              \* time.Now()
    jumps,            \* backward clock jumps so far
    matchers,         \* every replyMatcher made by pending, by creation
    addReplyMatcher,  \* t.addReplyMatcher: [isNil, q]
    plist,            \* loop's plist: matcher ids, front first
    listUpdate,       \* loop's listUpdate channel: ids, Nil for nil
    gotreply,         \* t.gotreply channel
    matchedCh,        \* the matched channel of the reply in flight
    nextTimeout,      \* timer goroutine: head of plist at last reset
    timer,            \* timer goroutine's time.Timer: [armed, at]
    pcLoop,           \* where UDPv4.loop stands
    notify,           \* list elements loop still has to send on listUpdate
    pcTimer,          \* where the timer goroutine stands
    timerEl,          \* the matchers the timer goroutine's walk still sends to
    contTimeouts,     \* loop's contTimeouts: timeouts since the last reply
    ntpWarnTime,      \* loop's ntpWarnTime: when checkClockDrift was last started
    closed,           \* closeCtx is cancelled
    connClosed,       \* conn.Close() was called
    pcClose,          \* where Close stands
    pcRead,           \* where readLoop stands
    pkt,              \* the datagram readLoop is handling
    npackets,         \* datagrams read so far
    out,              \* datagrams written to the socket, in order
    errors,           \* t.errors
    lastPong,         \* db.LastPongReceived, by <<id, ip>>: a time or Nil-record
    lastPing,         \* db.LastPingReceived
    tab,              \* nodes passed to tab.addVerifiedNode
    gotkey,           \* t.gotkey channel
    gotnodes,         \* t.gotnodes channel
    unknownKeys,      \* readLoop's unknownKeys cache
    unhandled,        \* cfg.Unhandled: whether set, what was sent to it, its closes
    mutex,            \* t.mutex: who holds it
    closeOnce,        \* t.closeOnce: what Close has done, and a second call of Close
    unsolicitedNodes, \* loop's unsolicitedNodes LRU, as the set of its keys
    pcCall,           \* the caller inside findnode or RequestENR
    resolve,          \* the last Resolve call: its inputs and what it returned
    lookup            \* the lookup under way: asked, seen, result, its queries

vars == << now, jumps, matchers, addReplyMatcher, plist, listUpdate, gotreply,
           matchedCh, nextTimeout, timer, pcLoop, notify, pcTimer, timerEl,
           contTimeouts, ntpWarnTime,
           closed, connClosed, pcClose, pcRead, pkt, npackets, out,
           errors, lastPong, lastPing, tab, gotkey, gotnodes, unknownKeys,
           unhandled, mutex, closeOnce,
           unsolicitedNodes, pcCall, resolve, lookup >>

loopVars == << pcLoop, notify >>
ntpVars == << contTimeouts, ntpWarnTime >>
timerVars == << nextTimeout, timer, pcTimer, timerEl, ntpVars >>
regVars == << matchers, addReplyMatcher, plist, listUpdate, gotreply, matchedCh,
              loopVars, timerVars >>
closeVars == << closed, connClosed, pcClose, closeOnce >>
sinkVars == << unhandled, mutex >>
readVars == << pcRead, pkt, npackets, errors, gotkey, gotnodes, unknownKeys, sinkVars >>
dbVars == << lastPong, lastPing, tab >>
clockVars == << now, jumps >>
apiVars == << unsolicitedNodes, pcCall, resolve, lookup >>

Never == [set |-> FALSE, at |-> 0]
At(t) == [set |-> TRUE, at |-> t]
\* time.Since(x); the zero time of an absent entry is out of any window
Since(x) == IF x.set THEN now - x.at ELSE 1000 * bondExpiration

NoPkt == [kind |-> "none"]
\* a nil callback: no node to hand to the table
NoNode == [id |-> 0, ip |-> 0, port |-> 0]

\* no endpoint proof, no ping seen
NoProof == [s \in { << x.id, x.ip >> : x \in Sources } |-> Never]

\* no findnode or RequestENR under way; no Resolve made
NoCall == [api |-> "none", pc |-> "idle", m |-> Nil, n |-> NoNode, fails |-> 0, until |-> 0]
NoResolve == [called |-> FALSE]
\* no lookup made
NoLookup == [pc |-> "idle"]

\* cfg.Unhandled: nil, or a channel whose reader takes what is sent
NoSink == [cfg |-> FALSE, q |-> << >>, closes |-> 0]
Sink == [cfg |-> TRUE, q |-> << >>, closes |-> 0]

\* t.mutex unlocked
Unlocked == "unlocked"

\* Close not called: nothing cancelled or closed, no second call
NotClosed == [cancels |-> 0, conns |-> 0, tabs |-> 0, again |-> "idle"]

\* the state ListenV4 returns in with cfg.Unhandled = sink, over a node
\* database holding the pong times pong and the ping times ping, as it is
\* once timeouts timeouts in a row were counted and checkClockDrift was last
\* started at warned
ListenV4(pong, ping, timeouts, warned, sink) ==
    /\ now = 0
    /\ jumps = 0
    /\ matchers = << >>
    /\ addReplyMatcher = [isNil |-> FALSE, q |-> << >>]
    /\ plist = << >>
    /\ listUpdate = << >>
    /\ gotreply = << >>
    /\ matchedCh = << >>
    /\ nextTimeout = Nil
    /\ timer = [armed |-> FALSE, at |-> 0]
    /\ pcLoop = "select"
    /\ notify = << >>
    /\ pcTimer = "select"
    /\ timerEl = << >>
    /\ contTimeouts = timeouts
    /\ ntpWarnTime = warned
    /\ closed = FALSE
    /\ connClosed = FALSE
    /\ pcClose = "idle"
    /\ pcRead = "read"
    /\ pkt = NoPkt
    /\ npackets = 0
    /\ out = << >>
    /\ errors = [k \in ErrorKeys |-> 0]
    /\ lastPong = pong
    /\ lastPing = ping
    /\ tab = {}
    /\ gotkey = << >>
    /\ gotnodes = << >>
    /\ unknownKeys = {}
    /\ unhandled = sink
    /\ mutex = Unlocked
    /\ closeOnce = NotClosed
    /\ unsolicitedNodes = {}
    /\ pcCall = NoCall
    /\ resolve = NoResolve
    /\ lookup = NoLookup

\* the same with no Unhandled sink
ListeningAfter(pong, ping, timeouts, warned) ==
    ListenV4(pong, ping, timeouts, warned, NoSink)

\* the state ListenV4 returns in: contTimeouts = 0, ntpWarnTime = time.Unix(0, 0)
ListeningOver(pong, ping) ==
    ListeningAfter(pong, ping, 0, Never)

\* the same, over a database that has seen no ping
Listening(db) ==
    ListeningOver(db, NoProof)

Init == Listening(NoProof)

\* ------------------------------------------------------------- channels

\* a buffered channel of capacity c accepts a send
CanSend(ch, c) == Len(ch) < c

\* errc is made with capacity 1: a send goes through while the one slot is free
ErrcFree(ms, m) == Len(ms[m].errc) - ms[m].taken < 1

SendErr(ms, m, e) == [ms EXCEPT ![m].errc = Append(@, e)]

\* container/list: Remove(el)
Remove(l, m) == SelectSeq(l, LAMBDA x : x # m)

\* --------------------------------------------------------------- callers

\* what a call that has not returned has returned
NoRet == [done |-> FALSE]

\* the replyMatcher pending makes; the hash of the request it waits for is
\* the matcher's own number, so every request has a hash of its own.
\* nreceived and nodes are the variables findnode's callback closes over,
\* ret is what the findnode or RequestENR that made the matcher returned.
NewMatcher(to, ptype, cb, awaited) ==
    [from |-> to.id, ip |-> to.ip, port |-> to.port, ptype |-> ptype,
     tok |-> Len(matchers) + 1, cb |-> cb, awaited |-> awaited,
     deadline |-> 0, errc |-> << >>, taken |-> 0, reply |-> NoPkt,
     nreceived |-> 0, nodes |-> << >>, ret |-> NoRet]

\* UDPv4.pending: errClosed at once when the channel is nil, else the select
\* between the buffered send and closeCtx.Done() (either, when both are ready)
pending(p) ==
    IF addReplyMatcher.isNil
    THEN /\ matchers' = Append(matchers, [p EXCEPT !.errc = << errClosed >>])
         /\ UNCHANGED addReplyMatcher
    ELSE \/ /\ CanSend(addReplyMatcher.q, ChanCap)
            /\ matchers' = Append(matchers, p)
            /\ addReplyMatcher' = [addReplyMatcher EXCEPT !.q = Append(@, Len(matchers) + 1)]
         \/ /\ closed
            /\ matchers' = Append(matchers, [p EXCEPT !.errc = << errClosed >>])
            /\ UNCHANGED addReplyMatcher

\* UDPv4.sendPing with a Ping that encodes: the matcher, then the datagram
sendPing(to, cb, awaited, written) ==
    /\ Len(matchers) < MaxMatchers
    /\ pending(NewMatcher(to, PongPacket, cb, awaited))
    /\ out' = Append(written, [kind |-> PingPacket, ip |-> to.ip, port |-> to.port,
                         tok |-> Len(matchers) + 1, n |-> << >>, by |-> IF awaited THEN "caller" ELSE "handler"])

\* UDPv4.Ping / ping called by a user of the transport: sendPing, then <-rm.errc
Ping ==
    /\ sendPing(Peer, NoNode, TRUE, out)
    /\ UNCHANGED << plist, listUpdate, gotreply, matchedCh, loopVars, timerVars >>
    /\ UNCHANGED << closeVars, apiVars, readVars, dbVars, clockVars >>

\* the caller's receive from rm.errc (ping, findnode, RequestENR, ensureBond)
AwaitErrc ==
    /\ \E m \in 1..Len(matchers) :
          /\ matchers[m].awaited
          /\ matchers[m].taken = 0
          /\ matchers[m].errc # << >>
          /\ matchers' = [matchers EXCEPT ![m].taken = 1]
    /\ UNCHANGED << addReplyMatcher, plist, listUpdate, gotreply, matchedCh,
                    loopVars, timerVars, out >>
    /\ UNCHANGED << closeVars, apiVars, readVars, dbVars, clockVars >>

\* ----------------------------------------------------- nodes off the wire

errLowPort == "low port"
errRelay == "relay IP"
errNetrestrict == "not contained in netrestrict whitelist"
errBadKey == "invalid public key"
errIncomplete == "incomplete node"

\* a v4wire.Node that passes every check of nodeFromRPC from any sender.
\* relay holds the sender ips CheckRelayIP accepts the node's ip from,
\* restricted tells that a netrestrict list is configured and lacks the ip.
GoodNode(i) ==
    [id |-> i, udp |-> 30303, relay |-> {1, 2}, restricted |-> FALSE,
     key |-> TRUE, complete |-> TRUE]

\* UDPv4.nodeFromRPC: the error and, with no error, the node
nodeFromRPCAnyPort(sender, rn) ==
    IF sender.ip \notin rn.relay THEN [err |-> errRelay, id |-> 0]
    ELSE IF rn.restricted THEN [err |-> errNetrestrict, id |-> 0]
    ELSE IF ~rn.key THEN [err |-> errBadKey, id |-> 0]
    ELSE IF ~rn.complete THEN [err |-> errIncomplete, id |-> rn.id]
    ELSE [err |-> ErrNil, id |-> rn.id]
nodeFromRPC(sender, rn) ==
    IF rn.udp <= 1024 THEN [err |-> errLowPort, id |-> 0]
    ELSE IF sender.ip \notin rn.relay THEN [err |-> errRelay, id |-> 0]
    ELSE IF rn.restricted THEN [err |-> errNetrestrict, id |-> 0]
    ELSE IF ~rn.key THEN [err |-> errBadKey, id |-> 0]
    ELSE IF ~rn.complete THEN [err |-> errIncomplete, id |-> rn.id]
    ELSE [err |-> ErrNil, id |-> rn.id]

Elems(q) == { q[i] : i \in 1..Len(q) }

\* the loop over reply.Nodes in findnode's callback and in loop's gotnodes
\* case: the nodes nodeFromRPC gives with no error, in order
AcceptedAll(sender, rns) == [i \in 1..Len(rns) |-> rns[i].id]
RECURSIVE Accepted(_, _)
Accepted(sender, rns) ==
    IF rns = << >> THEN << >>
    ELSE LET r == nodeFromRPC(sender, Head(rns))
         IN (IF r.err = ErrNil THEN << r.id >> ELSE << >>) \o Accepted(sender, Tail(rns))

\* the Nodes of the Neighbors packets a remote sends: twelve good nodes (a
\* full packet), and seven of which five fail one check of nodeFromRPC each
Twelve == [i \in 1..MaxNeighbors |-> GoodNode(i)]
Mixed ==
    << [GoodNode(21) EXCEPT !.udp = 1025],
       [GoodNode(22) EXCEPT !.udp = 1024],
       [GoodNode(23) EXCEPT !.relay = {2}],
       [GoodNode(24) EXCEPT !.restricted = TRUE],
       [GoodNode(25) EXCEPT !.key = FALSE],
       [GoodNode(26) EXCEPT !.complete = FALSE],
       GoodNode(27) >>

\* ------------------------------------------------------- loop: dispatcher

\* loop's mutex is free unless the timer goroutine stands in a send on errc
MutexFree == pcTimer \notin {"sendTimeout", "sendWarp"}

\* container/list: el.Next() in the loops over plist.  Remove(el) clears the
\* element's links, so Next() of a removed element is nil and the walk ends.
ElNext(l, i, removed) == IF removed \/ i = Len(l) THEN 0 ELSE i + 1

Front(l) == IF l = << >> THEN 0 ELSE 1

\* listUpdate <- el for each of els in turn, as far as the buffer takes them
RECURSIVE Notified(_, _)
Notified(lu, els) ==
    IF els = << >> \/ ~CanSend(lu, ChanCap)
    THEN [lu |-> lu, rest |-> els]
    ELSE Notified(Append(lu, Head(els)), Tail(els))

\* case p := <-t.addReplyMatcher
LoopAdd ==
    /\ pcLoop = "select"
    /\ ~addReplyMatcher.isNil
    /\ addReplyMatcher.q # << >>
    /\ MutexFree
    /\ LET p == Head(addReplyMatcher.q)
           n == Notified(listUpdate, << p >>)
       IN /\ matchers' = [matchers EXCEPT ![p].deadline = now + replyTimeout]
          /\ plist' = Append(plist, p)
          /\ listUpdate' = n.lu
          /\ notify' = n.rest
          /\ pcLoop' = IF n.rest = << >> THEN "select" ELSE "notify"
    /\ addReplyMatcher' = [addReplyMatcher EXCEPT !.q = Tail(@)]
    /\ UNCHANGED << gotreply, matchedCh, timerVars, out >>
    /\ UNCHANGED << closeVars, apiVars, readVars, dbVars, clockVars >>

\* loop waits in listUpdate <- back or listUpdate <- el until the buffer has room
LoopNotify ==
    /\ pcLoop = "notify"
    /\ CanSend(listUpdate, ChanCap)
    /\ LET n == Notified(listUpdate, notify)
       IN /\ listUpdate' = n.lu
          /\ notify' = n.rest
          /\ pcLoop' = IF n.rest = << >> THEN "select" ELSE "notify"
    /\ UNCHANGED << matchers, addReplyMatcher, plist, gotreply, matchedCh, timerVars, out >>
    /\ UNCHANGED << closeVars, apiVars, readVars, dbVars, clockVars >>

\* if (p.ptype == r.data.Kind()) && p.ip.Equal(r.ip) && (p.port == r.port)
Matches(m, r) == m.ptype = r.data.kind /\ m.ip = r.ip /\ m.port = r.port

\* the matcher's callback on a reply.  sendPing's and RequestENR's closures
\* compare ReplyTok with the hash of the request and report (matched,
\* matched); findnode's counts every node of the reply, keeps the ones
\* nodeFromRPC accepts and reports (true, nreceived >= bucketSize).
CallbackValidOnly(m, data) ==
    IF m.ptype = NeighborsPacket
    THEN LET nodes == m.nodes \o Accepted(m, data.nodes)
         IN [matched |-> TRUE, requestDone |-> Len(nodes) >= bucketSize,
             nreceived |-> m.nreceived + Len(data.nodes), nodes |-> nodes]
    ELSE [matched |-> data.tok = m.tok, requestDone |-> data.tok = m.tok,
          nreceived |-> m.nreceived, nodes |-> m.nodes]
CallbackAny(m, data) ==
    [matched |-> TRUE, requestDone |-> TRUE, nreceived |-> m.nreceived, nodes |-> m.nodes]
Callback(m, data) ==
    IF m.ptype = NeighborsPacket
    THEN LET nreceived == m.nreceived + Len(data.nodes)
         IN [matched |-> TRUE, requestDone |-> nreceived >= bucketSize,
             nreceived |-> nreceived, nodes |-> m.nodes \o Accepted(m, data.nodes)]
    ELSE LET matched == data.tok = m.tok
         IN [matched |-> matched, requestDone |-> matched,
             nreceived |-> m.nreceived, nodes |-> m.nodes]

\* matched = matched || ok
AnyMatchedAnd(matched, ok) == matched /\ ok
AnyMatched(matched, ok) == matched \/ ok

\* the gotreply case's walk over plist from element i on.  st carries the
\* matchers, the list, matched, the removals, the nodes the callbacks
\* handed to tab.addVerifiedNode and contTimeouts.
RECURSIVE ReplyWalk(_, _, _)
ReplyWalk(i, r, st) ==
    IF i = 0 THEN st
    ELSE LET p == plist[i]
             m == matchers[p]
         IN IF Matches(m, r)
            THEN LET res == Callback(m, r.data)
                     st1 == [st EXCEPT !.matched = AnyMatched(@, res.matched),
                                       !.ms[p].reply = r.data,
                                       !.ms[p].nreceived = res.nreceived,
                                       !.ms[p].nodes = res.nodes,
                                       !.ct = 0,
                                       !.added = IF res.matched /\ m.cb # NoNode
                                                 THEN @ \cup {m.cb} ELSE @]
                     st2 == IF res.requestDone
                            THEN [st1 EXCEPT !.ms = SendErr(@, p, ErrNil),
                                             !.pl = Remove(@, p),
                                             !.removals = Append(@, p)]
                            ELSE st1
                 IN ReplyWalk(ElNext(plist, i, res.requestDone), r, st2)
            ELSE ReplyWalk(ElNext(plist, i, FALSE), r, st)

\* case r := <-t.gotreply
LoopReply ==
    /\ pcLoop = "select"
    /\ gotreply # << >>
    /\ MutexFree
    /\ LET r == Head(gotreply)
           st == ReplyWalk(Front(plist), r,
                           [ms |-> matchers, pl |-> plist, matched |-> FALSE,
                            removals |-> << >>, added |-> {}, ct |-> contTimeouts])
           n == Notified(listUpdate, st.removals)
       IN /\ matchers' = st.ms
          /\ plist' = st.pl
          /\ matchedCh' = Append(matchedCh, st.matched)
          /\ tab' = tab \cup st.added
          /\ contTimeouts' = st.ct
          /\ listUpdate' = n.lu
          /\ notify' = n.rest
          /\ pcLoop' = IF n.rest = << >> THEN "select" ELSE "notify"
    /\ gotreply' = Tail(gotreply)
    /\ UNCHANGED << addReplyMatcher, nextTimeout, timer, pcTimer, timerEl, ntpWarnTime, out >>
    /\ UNCHANGED << closeVars, apiVars, readVars, lastPong, lastPing, clockVars >>

\* case key := <-t.gotkey: the lookup runs in a goroutine of its own
LoopGotkey ==
    /\ pcLoop = "select"
    /\ gotkey # << >>
    /\ gotkey' = Tail(gotkey)
    /\ UNCHANGED << regVars, closeVars, apiVars, pcRead, pkt, npackets, errors,
                    gotnodes, unknownKeys, sinkVars, dbVars, clockVars, out >>

\* case nodes := <-t.gotnodes
LoopGotnodes ==
    /\ pcLoop = "select"
    /\ gotnodes # << >>
    /\ MutexFree
    /\ gotnodes' = Tail(gotnodes)
    /\ LET nodes == Head(gotnodes)
       IN unsolicitedNodes' = unsolicitedNodes \cup Elems(Accepted(nodes.addr, nodes.nodes))
    /\ UNCHANGED << regVars, closeVars, pcCall, resolve, lookup, pcRead, pkt, npackets, errors,
                    gotkey, unknownKeys, sinkVars, dbVars, clockVars, out >>

\* errClosed to every element of l, none removed
RECURSIVE SendAll(_, _, _)
SendAll(ms, l, e) == IF l = << >> THEN ms ELSE SendAll(SendErr(ms, Head(l), e), Tail(l), e)

\* the close case from listUpdate <- nil on: errClosed to every element of
\* plist; close(t.addReplyMatcher), errClosed to what it holds,
\* t.addReplyMatcher = nil; return
CloseCase ==
    /\ CanSend(listUpdate, ChanCap)
    /\ MutexFree
    /\ \A i \in 1..Len(plist) : ErrcFree(matchers, plist[i])
    /\ listUpdate' = Append(listUpdate, Nil)
    /\ matchers' = SendAll(matchers, plist \o addReplyMatcher.q, errClosed)
    /\ addReplyMatcher' = [isNil |-> TRUE, q |-> << >>]
    /\ pcLoop' = "done"

\* case <-t.closeCtx.Done()
LoopClose ==
    /\ pcLoop = "select"
    /\ closed
    /\ IF CanSend(listUpdate, ChanCap)
       THEN CloseCase
       ELSE /\ pcLoop' = "closeNotify"
            /\ UNCHANGED << matchers, addReplyMatcher, listUpdate >>
    /\ UNCHANGED << plist, gotreply, matchedCh, notify, timerVars, out >>
    /\ UNCHANGED << closeVars, apiVars, readVars, dbVars, clockVars >>

\* loop waits in listUpdate <- nil until the buffer has room
LoopCloseNotify ==
    /\ pcLoop = "closeNotify"
    /\ CloseCase
    /\ UNCHANGED << plist, gotreply, matchedCh, notify, timerVars, out >>
    /\ UNCHANGED << closeVars, apiVars, readVars, dbVars, clockVars >>

\* ------------------------------------------------- loop: timer goroutine

\* what the timer goroutine works on while it holds the mutex
TimerState ==
    [ms |-> matchers, pl |-> plist, nt |-> nextTimeout, tm |-> timer,
     todo |-> timerEl, pc |-> pcTimer, ct |-> contTimeouts, warn |-> ntpWarnTime]

SetTimerState(rs) ==
    /\ matchers' = rs.ms
    /\ plist' = rs.pl
    /\ nextTimeout' = rs.nt
    /\ timer' = rs.tm
    /\ timerEl' = rs.todo
    /\ pcTimer' = rs.pc
    /\ contTimeouts' = rs.ct
    /\ ntpWarnTime' = rs.warn

Stopped == [armed |-> FALSE, at |-> 0]

\* the timeout case's walk from element i on: the matchers that are sent
\* errTimeout and removed, given the timer's reading t
TimeoutWalkUnchecked(i, t) == IF i = 0 THEN << >> ELSE << plist[i] >>
RECURSIVE TimeoutWalk(_, _)
TimeoutWalk(i, t) ==
    IF i = 0 THEN << >>
    ELSE LET p == plist[i]
             expired == ~(t < matchers[p].deadline)
         IN (IF expired THEN << p >> ELSE << >>) \o TimeoutWalk(ElNext(plist, i, expired), t)

\* p.errc <- e; plist.Remove(el) for the matchers a walk sends to, in turn,
\* as far as the sends go through; contTimeouts++ after each errTimeout
RECURSIVE Sends(_, _)
Sends(rs, e) ==
    IF rs.todo = << >> \/ ~ErrcFree(rs.ms, Head(rs.todo)) THEN rs
    ELSE Sends([rs EXCEPT !.ms = SendErr(@, Head(rs.todo), e),
                          !.pl = Remove(@, Head(rs.todo)),
                          !.todo = Tail(@),
                          !.ct = IF e = errTimeout THEN @ + 1 ELSE @], e)

\* the end of the timeout case: past ntpFailureThreshold timeouts in a row
\* checkClockDrift is started, unless it was within ntpWarningCooldown, and
\* the count starts anew
ntpCheck(rs) ==
    IF rs.ct > ntpFailureThreshold
    THEN [rs EXCEPT !.warn = IF Since(@) >= ntpWarningCooldown THEN At(now) ELSE @,
                    !.ct = 0]
    ELSE rs

\* resetTimeout's walk over list l from element i on: the matchers evicted
\* with errClockWarp, then the matcher the timer is set for and the timer
ResetWalkFullTimeout(ms, l, i, warped) ==
    IF i = 0
    THEN [warped |-> warped, nextTimeout |-> Nil, timer |-> Stopped]
    ELSE [warped |-> warped, nextTimeout |-> l[i],
          timer |-> [armed |-> TRUE, at |-> now + replyTimeout]]
RECURSIVE ResetWalk(_, _, _, _)
ResetWalk(ms, l, i, warped) ==
    IF i = 0
    THEN [warped |-> warped, nextTimeout |-> Nil, timer |-> Stopped]
    ELSE LET dist == ms[l[i]].deadline - now
         IN IF dist < 2 * replyTimeout
            THEN [warped |-> warped, nextTimeout |-> l[i],
                  timer |-> [armed |-> TRUE, at |-> now + dist]]
            ELSE ResetWalk(ms, l, ElNext(l, i, TRUE), Append(warped, l[i]))

\* resetTimeout()
resetTimeout(rs) ==
    IF rs.pl = << >> \/ rs.nt = Head(rs.pl)
    THEN [rs EXCEPT !.pc = "select"]
    ELSE LET w == ResetWalk(rs.ms, rs.pl, Front(rs.pl), << >>)
             rs1 == Sends([rs EXCEPT !.nt = w.nextTimeout, !.tm = w.timer,
                                     !.todo = w.warped], errClockWarp)
         IN [rs1 EXCEPT !.pc = IF rs1.todo = << >> THEN "select" ELSE "sendWarp"]

\* case now := <-timeout.C
TimerFire ==
    /\ pcTimer = "select"
    /\ timer.armed
    /\ now >= timer.at
    /\ LET rs0 == [TimerState EXCEPT !.tm = Stopped, !.nt = Nil,
                                     !.todo = TimeoutWalk(Front(plist), now)]
           rs1 == Sends(rs0, errTimeout)
       IN SetTimerState(IF rs1.todo = << >> THEN resetTimeout(ntpCheck(rs1))
                        ELSE [rs1 EXCEPT !.pc = "sendTimeout"])
    /\ UNCHANGED << addReplyMatcher, listUpdate, gotreply, matchedCh, loopVars, out >>
    /\ UNCHANGED << closeVars, apiVars, readVars, dbVars, clockVars >>

\* the timer goroutine waits in p.errc <- errTimeout or in
\* nextTimeout.errc <- errClockWarp, the mutex held, until errc has room
TimerSend ==
    /\ pcTimer \in {"sendTimeout", "sendWarp"}
    /\ ErrcFree(matchers, Head(timerEl))
    /\ LET rs1 == Sends(TimerState, IF pcTimer = "sendTimeout" THEN errTimeout ELSE errClockWarp)
       IN SetTimerState(IF rs1.todo # << >> THEN rs1
                        ELSE IF pcTimer = "sendTimeout" THEN resetTimeout(ntpCheck(rs1))
                        ELSE [rs1 EXCEPT !.pc = "select"])
    /\ UNCHANGED << addReplyMatcher, listUpdate, gotreply, matchedCh, loopVars, out >>
    /\ UNCHANGED << closeVars, apiVars, readVars, dbVars, clockVars >>

\* case el := <-listUpdate
TimerListUpdate ==
    /\ pcTimer = "select"
    /\ listUpdate # << >>
    /\ listUpdate' = Tail(listUpdate)
    /\ IF Head(listUpdate) = Nil
       THEN SetTimerState([TimerState EXCEPT !.pc = "done", !.tm = Stopped])
       ELSE SetTimerState(resetTimeout(TimerState))
    /\ UNCHANGED << addReplyMatcher, gotreply, matchedCh, loopVars, out >>
    /\ UNCHANGED << closeVars, apiVars, readVars, dbVars, clockVars >>

\* case <-t.closeCtx.Done(): return (defer timeout.Stop())
TimerClose ==
    /\ pcTimer = "select"
    /\ closed
    /\ pcTimer' = "done"
    /\ timer' = Stopped
    /\ UNCHANGED << matchers, addReplyMatcher, plist, listUpdate, gotreply, matchedCh,
                    nextTimeout, loopVars, timerEl, ntpVars, out >>
    /\ UNCHANGED << closeVars, apiVars, readVars, dbVars, clockVars >>

\* ------------------------------------------------------------------ clock

\* a stored time the clock has yet to pass: a deadline, the timer, an
\* endpoint proof that can still expire
TimeMatters ==
    \/ \E i \in 1..Len(plist) : matchers[plist[i]].deadline > now
    \/ timer.armed /\ timer.at > now
    \/ \E k \in DOMAIN lastPong : lastPong[k].set /\ now - lastPong[k].at <= bondExpiration
    \/ pcCall.pc = "sleep" /\ pcCall.until > now

Tick ==
    /\ TimeMatters
    /\ now' = now + 1
    /\ UNCHANGED << jumps, regVars, closeVars, apiVars, readVars, dbVars, out >>

\* the system clock is set back by j; the timer runs on elapsed time
JumpBack ==
    /\ jumps < MaxJumps
    /\ \E j \in {1, 2} :
          /\ now' = now - j
          /\ timer' = IF timer.armed THEN [timer EXCEPT !.at = @ - j] ELSE timer
          /\ pcCall' = IF pcCall.pc = "sleep" THEN [pcCall EXCEPT !.until = @ - j] ELSE pcCall
    /\ jumps' = jumps + 1
    /\ UNCHANGED << matchers, addReplyMatcher, plist, listUpdate, gotreply, matchedCh,
                    nextTimeout, loopVars, pcTimer, timerEl, ntpVars, out >>
    /\ UNCHANGED << closeVars, unsolicitedNodes, resolve, lookup, readVars, dbVars >>

\* ------------------------------------------------------------------ Close

\* t.cancelCloseCtx()
CloseCancel ==
    /\ pcClose = "idle"
    /\ closed' = TRUE
    /\ closeOnce' = [closeOnce EXCEPT !.cancels = @ + 1]
    /\ pcClose' = "cancelled"
    /\ UNCHANGED << connClosed, regVars, apiVars, readVars, dbVars, clockVars, out >>

\* t.conn.Close()
CloseConn ==
    /\ pcClose = "cancelled"
    /\ connClosed' = TRUE
    /\ closeOnce' = [closeOnce EXCEPT !.conns = @ + 1]
    /\ pcClose' = "wait"
    /\ UNCHANGED << closed, regVars, apiVars, readVars, dbVars, clockVars, out >>

\* t.wg.Wait() returns once loop and readLoop are done; t.tab.close()
CloseReturnNoWait ==
    /\ pcClose = "wait"
    /\ pcClose' = "returned"
    /\ closeOnce' = [closeOnce EXCEPT !.tabs = @ + 1]
    /\ UNCHANGED << closed, connClosed, regVars, apiVars, readVars, dbVars, clockVars, out >>
CloseReturn ==
    /\ pcClose = "wait"
    /\ pcLoop = "done"
    /\ pcRead = "done"
    /\ pcClose' = "returned"
    /\ closeOnce' = [closeOnce EXCEPT !.tabs = @ + 1]
    /\ UNCHANGED << closed, connClosed, regVars, apiVars, readVars, dbVars, clockVars, out >>

\* closeOnce.Do for a caller that is not the first: it returns once the
\* first caller's function has returned
OnceTaken == pcClose # "idle"
OnceDone == pcClose = "returned"

\* another Close(), during or after the first: it finds closeOnce taken
CloseAgain ==
    /\ pcClose # "idle"
    /\ closeOnce.again \in {"idle", "returned"}
    /\ closeOnce' = [closeOnce EXCEPT !.again = "called"]
    /\ UNCHANGED << closed, connClosed, pcClose, regVars, apiVars, readVars, dbVars,
                    clockVars, out >>

\* closeOnce.Do returns to that caller, and Close() does
CloseAgainReturn ==
    /\ closeOnce.again = "called"
    /\ OnceDone
    /\ closeOnce' = [closeOnce EXCEPT !.again = "returned"]
    /\ UNCHANGED << closed, connClosed, pcClose, regVars, apiVars, readVars, dbVars,
                    clockVars, out >>

\* --------------------------------------------------------------- readLoop

\* the datagrams ReadFromUDP can return: a kind, the key that signed it, the
\* source address, whether its Expiration has passed, and for a reply the
\* ReplyTok (the hash of one of the requests sent, or 0: no request's hash)
Datagrams(kinds, sources, exp) ==
    { [kind |-> k, id |-> s.id, ip |-> s.ip, port |-> s.port, expired |-> e, tok |-> t] :
        k \in kinds, s \in sources, e \in exp, t \in 0..Len(matchers) }

\* Neighbors packets: they carry no ReplyTok, and Nodes
NeighborsIn(sources, exp, payloads) ==
    { [kind |-> NeighborsPacket, id |-> s.id, ip |-> s.ip, port |-> s.port,
       expired |-> e, tok |-> 0, nodes |-> p] : s \in sources, e \in exp, p \in payloads }

\* a node record: its ID, its sequence number, whether enode.New accepts it
\* and the sender ips CheckRelayIP accepts the record's ip from
Record(id, seq) == [id |-> id, seq |-> seq, valid |-> TRUE, relay |-> {1, 2}]

\* the records a remote may answer with: of the peer at sequence numbers
\* below, at and above the 2 the callers hold, of another node, one
\* enode.New rejects, one whose ip fails the relay check, and an older one
\* whose ip fails it too
Records ==
    { Record(Peer.id, 1), Record(Peer.id, 2), Record(Peer.id, 3), Record(2, 3),
      [Record(Peer.id, 3) EXCEPT !.valid = FALSE], [Record(Peer.id, 3) EXCEPT !.relay = {2}],
      [Record(Peer.id, 1) EXCEPT !.relay = {2}] }

\* ENRResponse packets: no Expiration, a ReplyTok and a Record
ENRResponsesIn(sources, records) ==
    { [kind |-> ENRResponsePacket, id |-> s.id, ip |-> s.ip, port |-> s.port,
       expired |-> FALSE, tok |-> t, record |-> r] :
        s \in sources, t \in 0..Len(matchers), r \in records }

\* t.errors[err.Error()]++ under errorsLock
CountNone(e) == errors
Count(e) == [errors EXCEPT ![e] = @ + 1]

\* readLoop's default case for a packet whose handling failed with another
\* error than errUnsolicitedReply: unhandled <- ReadPacket{...} when the sink is set
Forward(d) == IF unhandled.cfg THEN [unhandled EXCEPT !.q = Append(@, d)] ELSE unhandled

\* t.conn.ReadFromUDP returns reply packet d: handlePacket up to handleReply's
\* select.  verifyPong and verifyNeighbors check the expiration first,
\* verifyENRResponse does not.
RecvReply(d) ==
    /\ pcRead = "read"
    /\ ~connClosed
    /\ npackets < MaxPackets
    /\ npackets' = npackets + 1
    /\ IF d.expired /\ d.kind # ENRResponsePacket
       THEN /\ mutex = Unlocked
            /\ errors' = Count(errExpired)
            /\ unhandled' = Forward(d)
            /\ pcRead' = "read"
            /\ pkt' = NoPkt
            /\ UNCHANGED gotreply
       ELSE \/ /\ CanSend(gotreply, ChanCap)
               /\ gotreply' = Append(gotreply, [from |-> d.id, ip |-> d.ip, port |-> d.port, data |-> d])
               /\ pcRead' = "waitMatched"
               /\ pkt' = d
               /\ UNCHANGED << errors, unhandled >>
            \/ /\ closed
               /\ mutex = Unlocked
               /\ errors' = Count(errUnsolicitedReply)
               /\ pcRead' = "route"
               /\ pkt' = d
               /\ UNCHANGED << gotreply, unhandled >>
    /\ UNCHANGED << matchers, addReplyMatcher, plist, listUpdate, matchedCh,
                    loopVars, timerVars, out >>
    /\ UNCHANGED << closeVars, apiVars, gotkey, gotnodes, unknownKeys, mutex, dbVars, clockVars >>

\* return <-matched, and the rest of verifyPong / verifyNeighbors / verifyENRResponse
ReplyMatched ==
    /\ pcRead = "waitMatched"
    /\ matchedCh # << >>
    /\ matchedCh' = Tail(matchedCh)
    /\ IF Head(matchedCh)
       THEN /\ lastPong' = IF pkt.kind = PongPacket
                           THEN [lastPong EXCEPT ![<< pkt.id, pkt.ip >>] = At(now)]
                           ELSE lastPong
            /\ pcRead' = "read"
            /\ pkt' = NoPkt
            /\ UNCHANGED errors
       ELSE /\ mutex = Unlocked
            /\ errors' = Count(errUnsolicitedReply)
            /\ pcRead' = "route"
            /\ UNCHANGED << lastPong, pkt >>
    /\ UNCHANGED << matchers, addReplyMatcher, plist, listUpdate, gotreply,
                    loopVars, timerVars, out >>
    /\ UNCHANGED << closeVars, apiVars, npackets, gotkey, gotnodes, unknownKeys, sinkVars,
                    lastPing, tab, clockVars >>

\* readLoop on errUnsolicitedReply: t.gotkey <- fromKey for a Pong whose key is
\* not in unknownKeys, t.gotnodes <- nodes for a Neighbors, a log line otherwise
RouteEveryKey ==
    /\ pcRead = "route"
    /\ IF pkt.kind = PongPacket
       THEN /\ CanSend(gotkey, ChanCap)
            /\ gotkey' = Append(gotkey, pkt.id)
            /\ unknownKeys' = unknownKeys \cup {pkt.id}
            /\ UNCHANGED gotnodes
       ELSE IF pkt.kind = NeighborsPacket
       THEN /\ CanSend(gotnodes, ChanCap)
            /\ gotnodes' = Append(gotnodes, [addr |-> [ip |-> pkt.ip, port |-> pkt.port],
                                             nodes |-> pkt.nodes])
            /\ UNCHANGED << gotkey, unknownKeys >>
       ELSE UNCHANGED << gotkey, gotnodes, unknownKeys >>
    /\ pcRead' = "read"
    /\ pkt' = NoPkt
    /\ UNCHANGED << regVars, closeVars, apiVars, npackets, errors, sinkVars, dbVars, clockVars, out >>
Route ==
    /\ pcRead = "route"
    /\ IF pkt.kind = PongPacket /\ pkt.id \notin unknownKeys
       THEN /\ CanSend(gotkey, ChanCap)
            /\ gotkey' = Append(gotkey, pkt.id)
            /\ unknownKeys' = unknownKeys \cup {pkt.id}
            /\ UNCHANGED gotnodes
       ELSE IF pkt.kind = NeighborsPacket
       THEN /\ CanSend(gotnodes, ChanCap)
            /\ gotnodes' = Append(gotnodes, [addr |-> [ip |-> pkt.ip, port |-> pkt.port],
                                             nodes |-> pkt.nodes])
            /\ UNCHANGED << gotkey, unknownKeys >>
       ELSE UNCHANGED << gotkey, gotnodes, unknownKeys >>
    /\ pcRead' = "read"
    /\ pkt' = NoPkt
    /\ UNCHANGED << regVars, closeVars, apiVars, npackets, errors, sinkVars, dbVars, clockVars, out >>

\* UDPv4.checkBond
checkBondAny(id, ip) == TRUE
checkBond(id, ip) == Since(lastPong[<< id, ip >>]) < bondExpiration

\* handlePing's test for the ping-back
pingBackNeeded(id, ip) == Since(lastPong[<< id, ip >>]) > bondExpiration

\* the hash v4wire.Decode gives for the inbound packet d: the packet's own,
\* and none of the hashes of the requests this node sends
PacketHash(d) == 100 + 10 * d.id + d.ip

\* a reply written by a handler to the address the datagram d came from
DatagramNoTok(kind, d, tok, n) ==
    [kind |-> kind, ip |-> d.ip, port |-> d.port, tok |-> 0, n |-> n, by |-> "handler"]
Datagram(kind, d, tok, n) ==
    [kind |-> kind, ip |-> d.ip, port |-> d.port, tok |-> tok, n |-> n, by |-> "handler"]

\* the node handlePing makes of Ping d: the ID of the key that signed the
\* packet, the address the datagram came from
PingNodeStated(d) == [id |-> d.id, ip |-> d.from.ip, port |-> d.from.port]
PingNode(d) == [id |-> d.id, ip |-> d.ip, port |-> d.port]

\* ReadFromUDP returns Ping d: verifyPing, then handlePing.  The Pong goes
\* out first; the sender is pinged back or handed to the table.
RecvPing(d) ==
    /\ pcRead = "read"
    /\ ~connClosed
    /\ npackets < MaxPackets
    /\ npackets' = npackets + 1
    /\ IF d.expired
       THEN /\ mutex = Unlocked
            /\ errors' = Count(errExpired)
            /\ unhandled' = Forward(d)
            /\ UNCHANGED << matchers, addReplyMatcher, out, lastPing, tab >>
       ELSE /\ LET n == PingNode(d)
                   pong == Append(out, Datagram(PongPacket, d, PacketHash(d), << >>))
               IN IF pingBackNeeded(n.id, d.ip)
                  THEN /\ sendPing(n, n, FALSE, pong)
                       /\ UNCHANGED tab
                  ELSE /\ tab' = tab \cup {n}
                       /\ out' = pong
                       /\ UNCHANGED << matchers, addReplyMatcher >>
            /\ lastPing' = [lastPing EXCEPT ![<< d.id, d.ip >>] = At(now)]
            /\ UNCHANGED << errors, unhandled >>
    /\ UNCHANGED << plist, listUpdate, gotreply, matchedCh, loopVars, timerVars >>
    /\ UNCHANGED << closeVars, apiVars, pcRead, pkt, gotkey, gotnodes, unknownKeys, mutex,
                    lastPong, clockVars >>

\* handleFindnode's loop over closest from element i on: closest[i] tells
\* whether CheckRelayIP lets node i go to the requester.  nodes is p.Nodes
\* (the nodes by their place in closest), st the Nodes of the Neighbors
\* datagrams sent so far.
RECURSIVE FindnodeWalkTrailing(_, _, _, _)
FindnodeWalkTrailing(closest, i, nodes, st) ==
    IF i > Len(closest)
    THEN Append(st, nodes)
    ELSE LET n1 == IF closest[i] THEN Append(nodes, i) ELSE nodes
         IN IF Len(n1) = MaxNeighbors
            THEN FindnodeWalkTrailing(closest, i + 1, << >>, Append(st, n1))
            ELSE FindnodeWalkTrailing(closest, i + 1, n1, st)
RECURSIVE FindnodeWalk(_, _, _, _)
FindnodeWalk(closest, i, nodes, st) ==
    IF i > Len(closest)
    THEN IF Len(nodes) > 0 \/ st = << >> THEN Append(st, nodes) ELSE st
    ELSE LET n1 == IF closest[i] THEN Append(nodes, i) ELSE nodes
         IN IF Len(n1) = MaxNeighbors
            THEN FindnodeWalk(closest, i + 1, << >>, Append(st, n1))
            ELSE FindnodeWalk(closest, i + 1, n1, st)

\* what tab.findnodeByID(target, bucketSize, true) can give: up to
\* bucketSize nodes, each passing the relay-IP check or not
Closest ==
    { [i \in 1..k |-> TRUE] : k \in {0, 1, MaxNeighbors, bucketSize} }
      \cup { [i \in 1..bucketSize |-> i > 4], [i \in 1..bucketSize |-> i % 5 # 0],
              [i \in 1..3 |-> FALSE] }

\* t.send(from, fromID, &p) for each p.Nodes of chunks in turn
RECURSIVE WriteAll(_, _, _)
WriteAll(written, d, chunks) ==
    IF chunks = << >> THEN written
    ELSE WriteAll(Append(written, Datagram(NeighborsPacket, d, 0, Head(chunks))), d, Tail(chunks))

\* ReadFromUDP returns Findnode d: verifyFindnode, then handleFindnode
RecvFindnode(d, closest) ==
    /\ pcRead = "read"
    /\ ~connClosed
    /\ npackets < MaxPackets
    /\ npackets' = npackets + 1
    /\ IF d.expired
       THEN /\ mutex = Unlocked
            /\ errors' = Count(errExpired)
            /\ unhandled' = Forward(d)
            /\ UNCHANGED out
       ELSE IF ~checkBond(d.id, d.ip)
       THEN /\ mutex = Unlocked
            /\ errors' = Count(errUnknownNode)
            /\ unhandled' = Forward(d)
            /\ UNCHANGED out
       ELSE /\ out' = WriteAll(out, d, FindnodeWalk(closest, 1, << >>, << >>))
            /\ UNCHANGED << errors, unhandled >>
    /\ UNCHANGED << regVars, closeVars, apiVars, pcRead, pkt, gotkey, gotnodes, unknownKeys,
                    mutex, dbVars, clockVars >>

\* ReadFromUDP returns ENRRequest d: verifyENRRequest, then handleENRRequest
RecvENRRequest(d) ==
    /\ pcRead = "read"
    /\ ~connClosed
    /\ npackets < MaxPackets
    /\ npackets' = npackets + 1
    /\ IF d.expired
       THEN /\ mutex = Unlocked
            /\ errors' = Count(errExpired)
            /\ unhandled' = Forward(d)
            /\ UNCHANGED out
       ELSE IF ~checkBond(d.id, d.ip)
       THEN /\ mutex = Unlocked
            /\ errors' = Count(errUnknownNode)
            /\ unhandled' = Forward(d)
            /\ UNCHANGED out
       ELSE /\ out' = Append(out, Datagram(ENRResponsePacket, d, PacketHash(d), << >>))
            /\ UNCHANGED << errors, unhandled >>
    /\ UNCHANGED << regVars, closeVars, apiVars, pcRead, pkt, gotkey, gotnodes, unknownKeys,
                    mutex, dbVars, clockVars >>

\* ReadFromUDP fails on the closed socket: return, and the deferred
\* close(unhandled) when the sink is set
ReadErr ==
    /\ pcRead = "read"
    /\ connClosed
    /\ pcRead' = "done"
    /\ unhandled' = IF unhandled.cfg THEN [unhandled EXCEPT !.closes = @ + 1] ELSE unhandled
    /\ UNCHANGED << regVars, closeVars, apiVars, pkt, npackets, errors, gotkey, gotnodes,
                    unknownKeys, mutex, dbVars, clockVars, out >>

\* ReadFromUDP returns a datagram v4wire.Decode fails on with e: handlePacket
\* returns the error and readLoop takes its default case
RecvBad(e) ==
    /\ pcRead = "read"
    /\ ~connClosed
    /\ npackets < MaxPackets
    /\ npackets' = npackets + 1
    /\ unhandled' = Forward([kind |-> "undecoded", err |-> e])
    /\ UNCHANGED << regVars, closeVars, apiVars, pcRead, pkt, errors, gotkey, gotnodes,
                    unknownKeys, mutex, dbVars, clockVars, out >>

\* ReadFromUDP returns a temporary error: continue
RecvTempReturn ==
    /\ pcRead = "read"
    /\ ~connClosed
    /\ npackets < MaxPackets
    /\ npackets' = npackets + 1
    /\ pcRead' = "done"
    /\ unhandled' = IF unhandled.cfg THEN [unhandled EXCEPT !.closes = @ + 1] ELSE unhandled
    /\ UNCHANGED << regVars, closeVars, apiVars, pkt, errors, gotkey, gotnodes,
                    unknownKeys, mutex, dbVars, clockVars, out >>
RecvTemp ==
    /\ pcRead = "read"
    /\ ~connClosed
    /\ npackets < MaxPackets
    /\ npackets' = npackets + 1
    /\ UNCHANGED << regVars, closeVars, apiVars, pcRead, pkt, errors, gotkey, gotnodes,
                    unknownKeys, sinkVars, dbVars, clockVars, out >>

\* ------------------------------------------- Errors and LenUnsolicited

\* UDPv4.Errors and UDPv4.LenUnsolicited: t.mutex.Lock(), after which the
\* caller reads t.errors or t.unsolicitedNodes
Lock(who) ==
    /\ mutex = Unlocked
    /\ mutex' = who
    /\ UNCHANGED << regVars, closeVars, apiVars, pcRead, pkt, npackets, errors, gotkey,
                    gotnodes, unknownKeys, unhandled, dbVars, clockVars, out >>

\* t.mutex.Unlock() and the return
Unlock(who) ==
    /\ mutex = who
    /\ mutex' = Unlocked
    /\ UNCHANGED << regVars, closeVars, apiVars, pcRead, pkt, npackets, errors, gotkey,
                    gotnodes, unknownKeys, unhandled, dbVars, clockVars, out >>

Errors == Lock("Errors")
ErrorsReturn == Unlock("Errors")
LenUnsolicited == Lock("LenUnsolicited")
LenUnsolicitedReturn == Unlock("LenUnsolicited")

\* --------------------------------------------- findnode and RequestENR

errWrite == "write: use of closed network connection"
errInvalidRecord == "invalid record"
errInvalidID == "invalid ID in response record"
errInvalidIP == "invalid IP in response record"

\* the *enode.Node a caller holds of the peer: its record at sequence number 2
PeerNode == [id |-> Peer.id, ip |-> Peer.ip, port |-> Peer.port, seq |-> 2, origin |-> "caller"]

\* the node enode.New makes of a response record
NodeOf(rec) == [id |-> rec.id, ip |-> 0, port |-> 0, seq |-> rec.seq, origin |-> "response"]

\* the counts db.FindFails can return
FindFails == {maxFindnodeFailures, maxFindnodeFailures + 1}

\* UDPv4.ensureBond's test: no ping seen from the node within bondExpiration
tooOldAtExpiry(to) == Since(lastPing[<< to.id, to.ip >>]) >= bondExpiration
tooOld(to) == Since(lastPing[<< to.id, to.ip >>]) > bondExpiration

\* ensureBond's sendPing(toid, toaddr, nil); the caller then waits in <-rm.errc
BondPing(api, n, fails) ==
    /\ sendPing(n, NoNode, TRUE, out)
    /\ pcCall' = [NoCall EXCEPT !.api = api, !.pc = "bond", !.m = Len(matchers) + 1,
                                !.n = n, !.fails = fails]

\* findnode / RequestENR from t.pending on: the matcher, then the datagram.
\* A write on the closed socket fails and the call returns the error, its
\* matcher left to the registry.
Request(api, n, ptype, kind, fails) ==
    /\ Len(matchers) < MaxMatchers
    /\ LET p == NewMatcher(n, ptype, NoNode, TRUE)
       IN IF connClosed
          THEN /\ pending([p EXCEPT !.awaited = FALSE,
                                    !.ret = [done |-> TRUE, err |-> errWrite, nodes |-> << >>,
                                             node |-> NoNode]])
               /\ pcCall' = NoCall
               /\ UNCHANGED out
          ELSE /\ pending(p)
               /\ pcCall' = [NoCall EXCEPT !.api = api, !.pc = "await", !.m = Len(matchers) + 1,
                                           !.n = n, !.fails = fails]
               /\ out' = Append(out, [kind |-> kind, ip |-> n.ip, port |-> n.port,
                                      tok |-> Len(matchers) + 1, n |-> << >>, by |-> "caller"])

\* a call of api on n from ensureBond on: the ping when the peer's last ping
\* is too old or the database counts too many findnode failures (a count
\* ensureBond reads only when the ping is not too old), else the request at once
Call(api, n, ptype, kind) ==
    /\ pcCall.pc = "idle"
    /\ \E ff \in FindFails :
          LET fails == IF tooOld(n) THEN 0 ELSE ff
          IN IF tooOld(n) \/ fails > maxFindnodeFailures
             THEN BondPing(api, n, fails)
             ELSE Request(api, n, ptype, kind, fails)
    /\ UNCHANGED << plist, listUpdate, gotreply, matchedCh, loopVars, timerVars >>
    /\ UNCHANGED << closeVars, unsolicitedNodes, resolve, lookup, readVars, dbVars, clockVars >>

\* ensureBond has its value from rm.errc: time.Sleep(t.pingBackDelay)
Sleep ==
    /\ pcCall.pc = "bond"
    /\ matchers[pcCall.m].taken = 1
    /\ pcCall' = [pcCall EXCEPT !.pc = "sleep", !.until = now + pingBackDelay]
    /\ UNCHANGED << regVars, closeVars, unsolicitedNodes, resolve, lookup, readVars, dbVars,
                    clockVars, out >>

\* the sleep is over and ensureBond returns: the request
Bonded(api, ptype, kind) ==
    /\ pcCall.api = api
    /\ pcCall.pc = "sleep"
    /\ now >= pcCall.until
    /\ Request(api, pcCall.n, ptype, kind, pcCall.fails)
    /\ UNCHANGED << plist, listUpdate, gotreply, matchedCh, loopVars, timerVars >>
    /\ UNCHANGED << closeVars, unsolicitedNodes, resolve, lookup, readVars, dbVars, clockVars >>

\* the call has its value from rm.errc and returns ret
Return(api, ret) ==
    /\ pcCall.api = api
    /\ pcCall.pc = "await"
    /\ matchers[pcCall.m].taken = 1
    /\ matchers' = [matchers EXCEPT ![pcCall.m].ret = ret]
    /\ pcCall' = NoCall
    /\ UNCHANGED << addReplyMatcher, plist, listUpdate, gotreply, matchedCh, loopVars,
                    timerVars, out >>
    /\ UNCHANGED << closeVars, unsolicitedNodes, resolve, lookup, readVars, dbVars, clockVars >>

\* UDPv4.FindNode / findnode on the peer
findnode ==
    Call("findnode", Peer, NeighborsPacket, FindnodePacket)

findnodeBonded ==
    Bonded("findnode", NeighborsPacket, FindnodePacket)

\* findnode after err = <-rm.errc: a timeout is no error when rm.reply is set
findnodeErrAsIs(rm) ==
    rm.errc[1]
findnodeErr(rm) ==
    IF rm.errc[1] = errTimeout /\ rm.reply # NoPkt THEN ErrNil ELSE rm.errc[1]

findnodeReturn ==
    /\ pcCall.pc = "await"
    /\ LET rm == matchers[pcCall.m]
       IN Return("findnode", [done |-> TRUE, err |-> findnodeErr(rm), nodes |-> rm.nodes,
                              node |-> NoNode])

\* UDPv4.RequestENR on the node n
RequestENR ==
    Call("RequestENR", PeerNode, ENRResponsePacket, ENRRequestPacket)

RequestENRBonded ==
    Bonded("RequestENR", ENRResponsePacket, ENRRequestPacket)

\* RequestENR from "Verify the response record" on
VerifyENRAnyID(n, rec) ==
    IF ~rec.valid THEN [err |-> errInvalidRecord, node |-> NoNode]
    ELSE IF rec.seq < n.seq THEN [err |-> ErrNil, node |-> n]
    ELSE IF n.ip \notin rec.relay THEN [err |-> errInvalidIP, node |-> NoNode]
    ELSE [err |-> ErrNil, node |-> NodeOf(rec)]
VerifyENR(n, rec) ==
    IF ~rec.valid THEN [err |-> errInvalidRecord, node |-> NoNode]
    ELSE IF rec.id # n.id THEN [err |-> errInvalidID, node |-> NoNode]
    ELSE IF rec.seq < n.seq THEN [err |-> ErrNil, node |-> n]
    ELSE IF n.ip \notin rec.relay THEN [err |-> errInvalidIP, node |-> NoNode]
    ELSE [err |-> ErrNil, node |-> NodeOf(rec)]

RequestENRReturn ==
    /\ pcCall.pc = "await"
    /\ LET rm == matchers[pcCall.m]
           v == IF rm.errc[1] # ErrNil THEN [err |-> rm.errc[1], node |-> NoNode]
                ELSE VerifyENR(pcCall.n, rm.reply.record)
       IN Return("RequestENR", [done |-> TRUE, err |-> v.err, nodes |-> << >>, node |-> v.node])

\* ---------------------------------------------------------------- Resolve

\* no response to a RequestENR before its deadline
NoReply == [id |-> 0, seq |-> 0, valid |-> FALSE, relay |-> {}]

\* what RequestENR(n) returns when the remote answers with the record reply,
\* or not at all
RequestENROutcome(n, reply) ==
    IF reply = NoReply THEN [err |-> errTimeout, node |-> NoNode] ELSE VerifyENR(n, reply)

\* Resolve's loop over the result of LookupPubkey: result[i].node is the node
\* found, result[i].reply what it answers to RequestENR
RECURSIVE ResolveLookup(_, _)
ResolveLookup(n, result) ==
    IF result = << >> THEN n
    ELSE LET rn == Head(result).node
             rn1 == RequestENROutcome(rn, Head(result).reply)
         IN IF rn.id = n.id /\ rn1.err = ErrNil
            THEN rn1.node
            ELSE ResolveLookup(n, Tail(result))

\* UDPv4.Resolve(n): r1 answers the direct request, intable is
\* tab.getNode(n.ID()) (NoNode for nil), r2 answers the request to intable,
\* hasKey tells whether n.Load(&key) succeeds
ResolveKeepInput(n, r1, intable, r2, hasKey, result) ==
    LET rn == RequestENROutcome(n, r1)
        newer == intable # NoNode /\ intable.seq > n.seq
        rn2 == RequestENROutcome(intable, r2)
    IN IF rn.err = ErrNil THEN rn.node
       ELSE IF newer /\ rn2.err = ErrNil THEN rn2.node
       ELSE IF ~hasKey THEN n
       ELSE ResolveLookup(n, result)
Resolve(n, r1, intable, r2, hasKey, result) ==
    LET rn == RequestENROutcome(n, r1)
        newer == intable # NoNode /\ intable.seq > n.seq
        n1 == IF newer THEN intable ELSE n
        rn2 == RequestENROutcome(n1, r2)
    IN IF rn.err = ErrNil THEN rn.node
       ELSE IF newer /\ rn2.err = ErrNil THEN rn2.node
       ELSE IF ~hasKey THEN n1
       ELSE ResolveLookup(n1, result)

\* the table's record of the peer at sequence number seq
TableNode(seq) == [PeerNode EXCEPT !.seq = seq, !.origin = "table"]

\* what a lookup can find: the peer or another node, as nodeFromRPC makes it
\* of a Neighbors entry (enode.NewV4: sequence number 0) or as a table holds
\* it at a newer sequence number, each with its answer to RequestENR
Found ==
    { [node |-> [id |-> i, ip |-> Peer.ip, port |-> Peer.port, seq |-> q, origin |-> "lookup"],
       reply |-> r] : i \in {1, 2}, q \in {0, 3},
                      r \in {NoReply, Record(1, 1), Record(1, 3), Record(2, 3)} }

LookupResults ==
    { << >> } \cup { << x >> : x \in Found } \cup { << x, y >> : x \in Found, y \in Found }

\* a call of Resolve on the peer's node, with what the remote, the table
\* and the lookup hold for it
ResolveCall ==
    /\ ~resolve.called
    /\ \E r1 \in Records \cup {NoReply}, r2 \in Records \cup {NoReply}, hasKey \in BOOLEAN,
          intable \in {NoNode} \cup { TableNode(q) : q \in 1..3 }, result \in LookupResults :
          resolve' = [called |-> TRUE, n |-> PeerNode, r1 |-> r1, intable |-> intable,
                      r2 |-> r2, hasKey |-> hasKey, result |-> result,
                      ret |-> Resolve(PeerNode, r1, intable, r2, hasKey, result)]
    /\ UNCHANGED << regVars, closeVars, unsolicitedNodes, pcCall, lookup, readVars, dbVars,
                    clockVars, out >>

\* ----------------------------------------------------------------- lookup

\* The lookup engine.  A node is the distance of its ID to the target, so a
\* smaller node is a closer one.

\* result.push: n goes to its place by distance, the list keeps its
\* bucketSize closest
pushUnbounded(result, n) ==
    SelectSeq(result, LAMBDA x : x < n) \o << n >> \o SelectSeq(result, LAMBDA x : x > n)
push(result, n) ==
    LET l == SelectSeq(result, LAMBDA x : x < n) \o << n >> \o SelectSeq(result, LAMBDA x : x > n)
    IN SubSeq(l, 1, IF Len(l) < bucketSize THEN Len(l) ELSE bucketSize)

\* the returned nodes are fed into seen and result, the ones seen before skipped
RECURSIVE feed(_, _)
feed(l, nodes) ==
    IF nodes = << >> THEN l
    ELSE LET n == Head(nodes)
         IN feed(IF n \in l.seen THEN l
                 ELSE [l EXCEPT !.seen = @ \cup {n}, !.result = push(@, n)], Tail(nodes))

\* the entries of result no query was sent to, closest first
Unqueried(l) == SelectSeq(l.result, LAMBDA x : x \notin l.asked)

\* the alpha closest nodes have all been queried
ClosestAsked(l) ==
    \A i \in 1..Len(l.result) : i <= alpha => l.result[i] \in l.asked

\* the lookup is over: the alpha closest nodes have all been queried, or the
\* queries of the last step returned no node closer than the closest before
Terminated(l) ==
    \/ ClosestAsked(l)
    \/ l.asked # {} /\ ~ (l.result # << >> /\ l.result[1] < l.best)

\* the nodes a findnode can return: none (an error, a timeout), the three
\* next closer ones, or a bucketful of farther ones
Returned3(n) == << n - 3, n - 2, n - 1 >>
FindnodeResults(n) ==
    { << >>, SelectSeq(Returned3(n), LAMBDA x : x >= 1),
      [i \in 1..bucketSize |-> MaxDistance + 1 - i] }

\* the nodes of the local table closest to the target, which result starts from
Seeds == { << >>, << MaxDistance >>, << 9, 10, 11, 12 >> }

\* newLookup(...).run() starts: result holds the table's closest nodes
lookupRun ==
    /\ lookup.pc = "idle"
    /\ \E seed \in Seeds :
          lookup' = [pc |-> "run", asked |-> {}, seen |-> Elems(seed), result |-> seed,
                     queries |-> {}, best |-> MaxDistance + 1,
                     calls |-> [n \in 1..MaxDistance |-> 0]]
    /\ UNCHANGED << regVars, closeVars, unsolicitedNodes, pcCall, resolve, readVars,
                    dbVars, clockVars, out >>

\* one step: the up to alpha closest unqueried entries of result are
\* queried in parallel, each by a findnode call of its own
lookupStep ==
    /\ lookup.pc = "run"
    /\ lookup.queries = {}
    /\ ~Terminated(lookup)
    /\ LET u == Unqueried(lookup)
           picked == { u[i] : i \in 1..(IF Len(u) < alpha THEN Len(u) ELSE alpha) }
       IN lookup' = [lookup EXCEPT !.asked = @ \cup picked,
                                   !.queries = picked,
                                   !.best = IF lookup.result = << >> THEN MaxDistance + 1
                                            ELSE lookup.result[1],
                                   !.calls = [n \in 1..MaxDistance |->
                                                 IF n \in picked THEN @[n] + 1 ELSE @[n]]]
    /\ UNCHANGED << regVars, closeVars, unsolicitedNodes, pcCall, resolve, readVars,
                    dbVars, clockVars, out >>

\* the findnode on n returns: its nodes are fed into seen and result
lookupReply ==
    /\ lookup.pc = "run"
    /\ \E n \in lookup.queries :
          \E nodes \in FindnodeResults(n) :
             lookup' = feed([lookup EXCEPT !.queries = @ \ {n}], nodes)
    /\ UNCHANGED << regVars, closeVars, unsolicitedNodes, pcCall, resolve, readVars,
                    dbVars, clockVars, out >>

\* run() returns result
lookupReturn ==
    /\ lookup.pc = "run"
    /\ lookup.queries = {}
    /\ Terminated(lookup)
    /\ lookup' = [lookup EXCEPT !.pc = "done"]
    /\ UNCHANGED << regVars, closeVars, unsolicitedNodes, pcCall, resolve, readVars,
                    dbVars, clockVars, out >>

\* ------------------------------------------------------------------- specs

\* the registry under Close: callers, loop, its timer goroutine, the clock,
\* Close, and readLoop taking Pongs from the peer's address
Next ==
    \/ Ping
    \/ AwaitErrc
    \/ LoopAdd
    \/ LoopNotify
    \/ LoopReply
    \/ LoopGotkey
    \/ LoopClose
    \/ LoopCloseNotify
    \/ TimerFire
    \/ TimerSend
    \/ TimerListUpdate
    \/ TimerClose
    \/ Tick
    \/ CloseCancel
    \/ CloseConn
    \/ CloseReturn
    \/ \E d \in Datagrams({PongPacket}, {Peer}, {FALSE}) : RecvReply(d)
    \/ \E d \in { x \in Datagrams({PingPacket}, {Peer}, {FALSE}) : x.tok = 0 } : RecvPing(d)
    \/ ReplyMatched
    \/ Route
    \/ ReadErr

Spec == Init /\ [][Next]_vars

\* the packet handlers and the bond: readLoop taking requests and Pongs from
\* every source, loop and its timer goroutine serving the ping-backs (which
\* never fill listUpdate), the clock.  The database may hold an endpoint proof of the peer from before.
InitH == \E v \in {Never, At(0)} : Listening([NoProof EXCEPT ![<< Peer.id, Peer.ip >>] = v])

\* a request carries no ReplyTok
Requests(kind) == { x \in Datagrams({kind}, Sources, BOOLEAN) : x.tok = 0 }

NextH ==
    \/ \E d \in Requests(PingPacket) : RecvPing(d)
    \/ \E d \in Requests(FindnodePacket) : \E c \in Closest : RecvFindnode(d, c)
    \/ \E d \in Requests(ENRRequestPacket) : RecvENRRequest(d)
    \/ \E d \in Datagrams({PongPacket}, Sources, BOOLEAN) : RecvReply(d)
    \/ \E d \in NeighborsIn(Sources, BOOLEAN, {Mixed}) : RecvReply(d)
    \/ ReplyMatched
    \/ Route
    \/ LoopAdd
    \/ LoopReply
    \/ LoopGotkey
    \/ LoopGotnodes
    \/ TimerFire
    \/ TimerListUpdate
    \/ Tick

HSpec == InitH /\ [][NextH]_vars

\* findnode and RequestENR on the peer, one call at a time: the caller, loop
\* and its timer goroutine, readLoop taking Neighbors and ENRResponse packets
\* from the peer's address, the clock.  The database may hold a ping of the
\* peer from before.
InitCall == \E v \in {Never, At(0), At(0 - bondExpiration)} : ListeningOver(NoProof, [NoProof EXCEPT ![<< Peer.id, Peer.ip >>] = v])

NextCall ==
    \/ findnode
    \/ Sleep
    \/ findnodeBonded
    \/ findnodeReturn
    \/ RequestENR
    \/ RequestENRBonded
    \/ RequestENRReturn
    \/ AwaitErrc
    \/ \E d \in NeighborsIn({Peer}, {FALSE}, {Twelve, Mixed}) : RecvReply(d)
    \/ \E d \in ENRResponsesIn({Peer}, Records) : RecvReply(d)
    \/ ReplyMatched
    \/ Route
    \/ LoopAdd
    \/ LoopNotify
    \/ LoopReply
    \/ LoopGotnodes
    \/ TimerFire
    \/ TimerListUpdate
    \/ Tick

CallSpec == InitCall /\ [][NextCall]_vars

\* findnode on the peer under Close and a system clock that is set back
NextFind ==
    \/ findnode
    \/ Sleep
    \/ findnodeBonded
    \/ findnodeReturn
    \/ AwaitErrc
    \/ \E d \in NeighborsIn({Peer}, {FALSE}, {Twelve}) : RecvReply(d)
    \/ ReplyMatched
    \/ Route
    \/ LoopAdd
    \/ LoopNotify
    \/ LoopReply
    \/ LoopGotnodes
    \/ LoopClose
    \/ LoopCloseNotify
    \/ TimerFire
    \/ TimerSend
    \/ TimerListUpdate
    \/ TimerClose
    \/ Tick
    \/ JumpBack
    \/ CloseCancel
    \/ CloseConn
    \/ CloseReturn
    \/ ReadErr

FindSpec == InitCall /\ [][NextFind]_vars

\* Resolve over every outcome of its requests, the table and the lookup
NextResolve ==
    \/ ResolveCall

ResolveSpec == Init /\ [][NextResolve]_vars

\* the registry under a system clock that is set back: callers, loop, its
\* timer goroutine, the clock
NextWarp ==
    \/ Ping
    \/ AwaitErrc
    \/ LoopAdd
    \/ TimerFire
    \/ TimerListUpdate
    \/ Tick
    \/ JumpBack

WarpSpec == Init /\ [][NextWarp]_vars

\* the registry once Close has cancelled the close context: as Spec, with
\* readLoop reading its Pongs only after the cancellation and the socket open
NextLate ==
    \/ Ping
    \/ AwaitErrc
    \/ LoopAdd
    \/ LoopNotify
    \/ LoopReply
    \/ LoopGotkey
    \/ LoopClose
    \/ LoopCloseNotify
    \/ TimerFire
    \/ TimerSend
    \/ TimerListUpdate
    \/ TimerClose
    \/ Tick
    \/ CloseCancel
    \/ closed /\ \E d \in Datagrams({PongPacket}, {Peer}, {FALSE}) : RecvReply(d)
    \/ ReplyMatched
    \/ Route

LateSpec == Init /\ [][NextLate]_vars

\* the drift watch: the registry of WarpSpec with Pongs from the peer's
\* address and no clock jumps, entered with the timeouts counted so far at
\* 0, one below ntpFailureThreshold or at it, and with checkClockDrift never
\* started or started just now
InitDrift ==
    \E c \in {0, ntpFailureThreshold - 1, ntpFailureThreshold} :
       \E w \in {Never, At(0)} :
          ListeningAfter(NoProof, NoProof, c, w)

NextDrift ==
    \/ Ping
    \/ AwaitErrc
    \/ LoopAdd
    \/ LoopReply
    \/ LoopGotkey
    \/ TimerFire
    \/ TimerListUpdate
    \/ Tick
    \/ \E d \in Datagrams({PongPacket}, {Peer}, {FALSE}) : RecvReply(d)
    \/ ReplyMatched
    \/ Route

DriftSpec == InitDrift /\ [][NextDrift]_vars

\* readLoop over everything the socket can give it, with or without an
\* Unhandled sink: requests and replies from every source, datagrams that
\* do not decode, temporary read errors, and the read error after Close
InitRead ==
    \E v \in {Never, At(0)} : \E sink \in {NoSink, Sink} :
       ListenV4([NoProof EXCEPT ![<< Peer.id, Peer.ip >>] = v], NoProof, 0, Never, sink)

NextRead ==
    \/ \E d \in Requests(PingPacket) : RecvPing(d)
    \/ \E d \in Requests(FindnodePacket) : \E c \in {[i \in 1..3 |-> TRUE]} : RecvFindnode(d, c)
    \/ \E d \in Requests(ENRRequestPacket) : RecvENRRequest(d)
    \/ \E d \in Datagrams({PongPacket}, Sources, BOOLEAN) : RecvReply(d)
    \/ \E d \in NeighborsIn(Sources, BOOLEAN, {Mixed}) : RecvReply(d)
    \/ \E d \in ENRResponsesIn(Sources, {Record(Peer.id, 3)}) : RecvReply(d)
    \/ \E e \in DecodeErrors : RecvBad(e)
    \/ RecvTemp
    \/ ReplyMatched
    \/ Route
    \/ ReadErr
    \/ LoopAdd
    \/ LoopReply
    \/ LoopGotkey
    \/ LoopGotnodes
    \/ LoopClose
    \/ TimerFire
    \/ TimerListUpdate
    \/ TimerClose
    \/ Tick
    \/ CloseCancel
    \/ CloseConn
    \/ CloseReturn

ReadSpec == InitRead /\ [][NextRead]_vars

\* the callers of Errors and LenUnsolicited next to readLoop counting its
\* rejections and loop storing the nodes of unsolicited Neighbors
NextLock ==
    \/ Errors
    \/ ErrorsReturn
    \/ LenUnsolicited
    \/ LenUnsolicitedReturn
    \/ \E d \in Requests(ENRRequestPacket) : RecvENRRequest(d)
    \/ \E d \in NeighborsIn({Peer}, {FALSE}, {Mixed}) : RecvReply(d)
    \/ \E d \in Datagrams({PongPacket}, {Peer}, {FALSE}) : RecvReply(d)
    \/ ReplyMatched
    \/ Route
    \/ LoopReply
    \/ LoopGotkey
    \/ LoopGotnodes

LockSpec == Init /\ [][NextLock]_vars

\* one lookup from its start to its return; every findnode returns in the end
NextLookup ==
    \/ lookupRun
    \/ lookupStep
    \/ lookupReply
    \/ lookupReturn

LookupSpec == Init /\ [][NextLookup]_vars /\ WF_vars(NextLookup)

\* ================================================================ claims

Has(q, e) == \E i \in 1..Len(q) : q[i] = e

\* the matchers that wait for a value: in the list or in the channel, errc untouched
Waiting ==
    { m \in 1..Len(matchers) :
        /\ matchers[m].errc = << >>
        /\ \/ \E i \in 1..Len(plist) : plist[i] = m
           \/ \E i \in 1..Len(addReplyMatcher.q) : addReplyMatcher.q[i] = m }

\* a step of Close, of loop and its timer goroutine, of readLoop past the
\* read, of a caller in its receive, or of the clock: what can still happen
\* with no new request made and no new datagram arriving
Progress ==
    \/ LoopAdd \/ LoopNotify \/ LoopReply \/ LoopGotkey \/ LoopClose \/ LoopCloseNotify
    \/ TimerFire \/ TimerSend \/ TimerListUpdate \/ TimerClose
    \/ ReplyMatched \/ Route \/ ReadErr
    \/ CloseConn \/ CloseReturn
    \/ AwaitErrc
    \/ Tick

\* C1: over its whole lifetime a matcher's errc never has a second value sent to it
C1_NeverTwoValues == \A m \in 1..Len(matchers) : Len(matchers[m].errc) <= 1

\* C2: no matcher is left in the list with no timer armed: when the timer
\* goroutine waits in its select with nothing to take from listUpdate and
\* loop waits in its own, the timer runs for as long as the list holds a matcher
C2_TimerArmedWhileListed ==
    (plist # << >> /\ pcTimer = "select" /\ listUpdate = << >> /\ pcLoop = "select")
        => timer.armed

\* C3: once Close is called it returns: while it has not, Close, loop, the
\* timer goroutine, readLoop or a waiting caller can take a step
C3_CloseTerminates == pcClose \in {"cancelled", "wait"} => ENABLED Progress

\* C5: a reply is not reported unmatched while the matcher made for it before
\* handleReply was called (its ReplyTok is that matcher's hash, its kind and
\* source are the matcher's) is still waiting
C5_ReplyReachesEarlierMatcher ==
    (pcRead = "waitMatched" /\ matchedCh = << FALSE >>)
        => ~ (/\ pkt.tok \in Waiting
              /\ Matches(matchers[pkt.tok], [data |-> pkt, ip |-> pkt.ip, port |-> pkt.port]))

\* C6: once the close context is cancelled every matcher in the list or in
\* the channel receives errClosed: while one of them still waits, some step
\* that leads there can be taken
C6_WaitingMatchersGetClosed == (closed /\ Waiting # {}) => ENABLED Progress

\* C7: after Close has returned no matcher is sent nil, readLoop reads no
\* datagram and no packet handler writes one
HandlerWrites(o) == SelectSeq(o, LAMBDA w : w.by = "handler")

C7_QuietAfterClose ==
    [][pcClose = "returned" =>
          /\ \A m \in 1..Len(matchers') :
                Has(matchers'[m].errc, ErrNil) => (m <= Len(matchers) /\ Has(matchers[m].errc, ErrNil))
          /\ npackets' = npackets
          /\ HandlerWrites(out') = HandlerWrites(out)]_vars

\* Close has returned after a Pong completed a Ping with nil and a handler wrote a datagram
C7_Witness ==
    /\ pcClose = "returned"
    /\ npackets > 0
    /\ HandlerWrites(out) # << >>
    /\ \E m \in 1..Len(matchers) : Has(matchers[m].errc, ErrNil)

\* C8: handling a reply read once the close context is cancelled counts no
\* error and leaves nothing to route to the unsolicited-key or -nodes channel
C8_LateReplyDropped ==
    [][(closed /\ npackets' = npackets + 1 /\ pkt'.kind = PongPacket)
          => (errors' = errors /\ pcRead' # "route")]_vars

\* the sender of d has no LastPongReceived within bondExpiration
Unbonded(d) ==
    LET p == lastPong[<< d.id, d.ip >>] IN ~ (p.set /\ now - p.at < bondExpiration)

\* readLoop handles Findnode or ENRRequest d in this step
Handled(d) ==
    \/ d.kind = FindnodePacket /\ \E c \in Closest : RecvFindnode(d, c)
    \/ d.kind = ENRRequestPacket /\ RecvENRRequest(d)

GatedRequests == Requests(FindnodePacket) \cup Requests(ENRRequestPacket)

\* C4 as stated: a Findnode or ENRRequest of an unbonded sender has no
\* datagram written for it and counts one "unknown node"
C4_UnbondedCountsUnknownNode ==
    [][\A d \in GatedRequests :
          (Handled(d) /\ Unbonded(d)) => (out' = out /\ errors' = Count(errUnknownNode))]_vars

\* C4: a Findnode or ENRRequest of an unbonded sender has no datagram written
\* for it; it counts one "unknown node" unless it is expired, and one
\* "expired" if it is
C4_UnbondedGetsNoReply ==
    [][\A d \in GatedRequests :
          (Handled(d) /\ Unbonded(d))
             => (out' = out /\ errors' = Count(IF d.expired THEN errExpired ELSE errUnknownNode))]_vars

\* an unbonded sender's request was turned away and nothing has been written
C4_Witness == errors[errUnknownNode] > 0 /\ out = << >>

\* C9: LastPongReceived(id, ip) changes only for the sender of the Pong in
\* readLoop's hands, which is not expired and whose ReplyTok is the hash of a
\* Ping sent to its ip:port that loop found in the list and completed with it
C9_LastPongOnlyBySolicitedPong ==
    [][\A k \in DOMAIN lastPong :
          lastPong'[k] # lastPong[k] =>
             /\ pkt.kind = PongPacket
             /\ ~pkt.expired
             /\ k = << pkt.id, pkt.ip >>
             /\ pkt.tok \in 1..Len(matchers)
             /\ LET m == matchers[pkt.tok]
                IN /\ m.ptype = PongPacket
                   /\ m.ip = pkt.ip
                   /\ m.port = pkt.port
                   /\ m.reply = pkt
                   /\ Has(m.errc, ErrNil)]_vars

\* a Pong completed a Ping and its sender's LastPongReceived is on file
C9_Witness ==
    \E m \in 1..Len(matchers) :
       /\ Has(matchers[m].errc, ErrNil)
       /\ lastPong[<< matchers[m].reply.id, matchers[m].reply.ip >>] = At(now)
       /\ now > 0

\* C10: a valid Ping's sender goes to addVerifiedNode at once only if its
\* bond is valid by checkBond at that time
C10_AddedAtOnceOnlyIfBonded ==
    [][\A d \in Requests(PingPacket) :
          (RecvPing(d) /\ ~d.expired /\ matchers' = matchers
              /\ [id |-> d.id, ip |-> d.ip, port |-> d.port] \in tab')
             => checkBond(d.id, d.ip)]_vars

\* what a step appended to the socket's output
Written == SubSeq(out', Len(out) + 1, Len(out'))

\* C11: a Ping that is not expired gets exactly one Pong, written to the
\* address it came from with ReplyTok the hash of that Ping and ahead of
\* the ping-back if there is one, and LastPingReceived(sender id, source ip)
\* is the current time afterwards, with or without a ping-back
C11_PongFirstThenLastPing ==
    [][\A d \in Requests(PingPacket) :
          (RecvPing(d) /\ ~d.expired)
             => /\ Len(out') >= Len(out) + 1
                /\ Written[1] = [kind |-> PongPacket, ip |-> d.ip, port |-> d.port,
                                 tok |-> PacketHash(d), n |-> << >>, by |-> "handler"]
                /\ \A i \in 2..Len(Written) : Written[i].kind # PongPacket
                /\ Len(Written) <= 2
                /\ Len(Written) = 2 => (Written[2].kind = PingPacket /\ pingBackNeeded(d.id, d.ip))
                /\ lastPing'[<< d.id, d.ip >>] = At(now)]_vars

\* a Pong that carries a Ping's hash is followed by the ping-back, and the
\* sender's LastPingReceived is on file
C11_Witness ==
    \E i \in 1..Len(out) - 1 :
       /\ out[i].kind = PongPacket
       /\ out[i].tok = PacketHash(Peer)
       /\ out[i + 1].kind = PingPacket
       /\ out[i + 1].by = "handler"
       /\ lastPing[<< Peer.id, Peer.ip >>].set

\* the places of closest that pass the relay-IP check, closest first
Qualifying(c) == SelectSeq([i \in 1..Len(c) |-> i], LAMBDA i : c[i])

\* the nodes of the datagrams w, in the order they were written
RECURSIVE Carried(_)
Carried(w) == IF w = << >> THEN << >> ELSE Head(w).n \o Carried(Tail(w))

\* C13: a bonded Findnode is answered with one or two Neighbors datagrams
\* to its source address, each of at most 12 nodes, which carry exactly the
\* closest nodes that pass the relay-IP check, each once and closest first:
\* one empty datagram when none passes, no trailing empty one when exactly
\* 12 pass
C13_NeighborsChunks ==
    [][\A d \in Requests(FindnodePacket) : \A c \in Closest :
          (RecvFindnode(d, c) /\ ~d.expired /\ checkBond(d.id, d.ip))
             => /\ Len(Written) \in 1..2
                /\ \A i \in 1..Len(Written) :
                      /\ Written[i].kind = NeighborsPacket
                      /\ Written[i].ip = d.ip /\ Written[i].port = d.port
                      /\ Len(Written[i].n) <= MaxNeighbors
                /\ Carried(Written) = Qualifying(c)
                /\ Qualifying(c) = << >> => (Len(Written) = 1 /\ Written[1].n = << >>)
                /\ Len(Qualifying(c)) = MaxNeighbors => Len(Written) = 1]_vars

\* sixteen closest nodes went out as twelve and four
C13_Witness ==
    \E i \in 1..Len(out) - 1 :
       /\ out[i].kind = NeighborsPacket /\ out[i + 1].kind = NeighborsPacket
       /\ out[i].n = [k \in 1..MaxNeighbors |-> k]
       /\ out[i + 1].n = [k \in 1..4 |-> MaxNeighbors + k]

\* C18 as stated, its last part: when Ping has returned (the caller took
\* the value of errc) the matcher is not in the list of outstanding requests
C18_ReturnedPingNotListed ==
    \A m \in 1..Len(matchers) :
       (matchers[m].awaited /\ matchers[m].taken = 1) => ~Has(plist, m)

\* the matchers of the findnode calls that have returned
Returned(ptype) ==
    { m \in 1..Len(matchers) : matchers[m].ptype = ptype /\ matchers[m].ret.done }

\* C14 as stated: findnode returns at most bucketSize nodes
C14_AtMostBucketSize ==
    \A m \in Returned(NeighborsPacket) : Len(matchers[m].ret.nodes) <= bucketSize

\* C15: a findnode whose matcher timed out returns nil if a Neighbors reply
\* from the queried address was dispatched to the matcher (every packet here
\* carries nodes, so nreceived counts the dispatch) and errTimeout if none
\* was; errClosed and errClockWarp are returned as they are
C15_TimeoutSuppressed ==
    \A m \in Returned(NeighborsPacket) :
       LET rm == matchers[m]
       IN rm.awaited =>
             /\ (rm.errc[1] = errTimeout /\ rm.nreceived > 0) => rm.ret.err = ErrNil
             /\ (rm.errc[1] = errTimeout /\ rm.nreceived = 0) => rm.ret.err = errTimeout
             /\ rm.ret.err = errTimeout => rm.nreceived = 0
             /\ rm.errc[1] \in {errClosed, errClockWarp, ErrNil} => rm.ret.err = rm.errc[1]

\* a findnode returned nil after its matcher timed out with twelve nodes in
\* hand, and another returned errClosed or errClockWarp
C15_Witness ==
    /\ \E m \in Returned(NeighborsPacket) :
          /\ matchers[m].awaited
          /\ matchers[m].errc[1] = errTimeout
          /\ matchers[m].nreceived = MaxNeighbors
          /\ matchers[m].ret.err = ErrNil
    /\ \E m \in Returned(NeighborsPacket) :
          matchers[m].awaited /\ matchers[m].ret.err \in {errClosed, errClockWarp}

\* C16: a RequestENR(n) that returns no error returns a node with n's ID and
\* a sequence number of at least n's; a valid response record with another
\* ID gives an error, one with n's ID and a lower sequence number gives n
\* itself, and the request is completed only by a response whose ReplyTok is
\* the hash of the ENRRequest sent
C16_RequestENRVerified ==
    \A m \in 1..Len(matchers) :
       LET rm == matchers[m]
       IN rm.ptype = ENRResponsePacket =>
             /\ Has(rm.errc, ErrNil) => (rm.reply # NoPkt /\ rm.reply.tok = rm.tok)
             /\ (rm.ret.done /\ rm.awaited) =>
                   /\ rm.ret.err = ErrNil =>
                         (rm.ret.node.id = PeerNode.id /\ rm.ret.node.seq >= PeerNode.seq)
                   /\ (rm.errc[1] = ErrNil /\ rm.reply.record.valid
                          /\ rm.reply.record.id # PeerNode.id) => rm.ret.err = errInvalidID
                   /\ (rm.errc[1] = ErrNil /\ rm.reply.record.valid
                          /\ rm.reply.record.id = PeerNode.id
                          /\ rm.reply.record.seq < PeerNode.seq)
                         => (rm.ret.err = ErrNil /\ rm.ret.node = PeerNode)
                   /\ rm.errc[1] # ErrNil => rm.ret.err = rm.errc[1]

\* a RequestENR returned the newer record of the response
C16_Witness ==
    \E m \in Returned(ENRResponsePacket) :
       /\ matchers[m].ret.err = ErrNil
       /\ matchers[m].ret.node.origin = "response"
       /\ matchers[m].ret.node.seq > PeerNode.seq

\* the nodes the Neighbors packets carry, and what makes one acceptable from
\* a sender at ip
WireNodes == Elems(Twelve) \cup Elems(Mixed)

Valid(rn, ip) ==
    rn.udp > 1024 /\ ip \in rn.relay /\ ~rn.restricted /\ rn.key /\ rn.complete

\* C20: nodeFromRPC gives no error exactly for the nodes with a UDP port above
\* 1024, an ip the relay rule accepts from the sender, inside netrestrict if
\* configured, and a valid key; every node findnode returns and every node
\* in the unsolicited-node LRU is such a node, and the nodes that fail a
\* check are in neither
C20_OnlyValidNodesAccepted ==
    /\ \A rn \in WireNodes : \A src \in Sources :
          /\ nodeFromRPC(src, rn).err = ErrNil <=> Valid(rn, src.ip)
          /\ Valid(rn, src.ip) => nodeFromRPC(src, rn).id = rn.id
    /\ \A rn \in WireNodes :
          ~Valid(rn, Peer.ip) =>
             /\ rn.id \notin unsolicitedNodes
             /\ \A m \in 1..Len(matchers) : ~Has(matchers[m].nodes, rn.id)
             /\ \A m \in Returned(NeighborsPacket) : ~Has(matchers[m].ret.nodes, rn.id)

\* a findnode returned the two good nodes of a packet that held five bad
\* ones, and the LRU holds the good nodes of an unsolicited packet
C20_Witness ==
    /\ \E m \in Returned(NeighborsPacket) : matchers[m].ret.nodes = << 21, 27 >>
    /\ unsolicitedNodes # {}

\* readLoop takes the request or reply d off the socket in this step
Taken(d) ==
    \/ d.kind = PingPacket /\ RecvPing(d)
    \/ d.kind = FindnodePacket /\ \E c \in Closest : RecvFindnode(d, c)
    \/ d.kind = ENRRequestPacket /\ RecvENRRequest(d)
    \/ d.kind \in {PongPacket, NeighborsPacket} /\ RecvReply(d)

\* the packets with an Expiration that readLoop can be handed
Expiring ==
    Requests(PingPacket) \cup Requests(FindnodePacket) \cup Requests(ENRRequestPacket)
      \cup Datagrams({PongPacket}, Sources, BOOLEAN) \cup NeighborsIn(Sources, BOOLEAN, {Mixed})

\* C12: an expired Ping, Pong, Findnode, Neighbors or ENRRequest adds one to
\* the errors counter "expired" and does nothing else: nothing is written
\* to the socket, nothing is handed to loop (so no callback runs) or to the
\* unsolicited channels, and LastPingReceived, LastPongReceived and the
\* table stay as they are
C12_ExpiredIsInert ==
    [][\A d \in { x \in Expiring : x.expired } :
          (npackets' # npackets /\ Taken(d))
             => /\ errors' = [errors EXCEPT ![errExpired] = @ + 1]
                /\ out' = out
                /\ UNCHANGED << matchers, plist, gotreply, matchedCh, gotkey, gotnodes,
                                unknownKeys, unsolicitedNodes >>
                /\ pcRead' = "read"
                /\ UNCHANGED << lastPing, lastPong, tab >>]_vars

\* two expired packets were counted and nothing else has happened
C12_Witness ==
    /\ errors[errExpired] = MaxPackets
    /\ out = << >>
    /\ matchers = << >>
    /\ tab = {}

\* C19: a Neighbors packet that no matcher waits for leaves the table as it
\* is, on its way to loop and in loop; loop puts into the unsolicited-node
\* LRU the IDs of exactly those of its entries that pass the checks of
\* nodeFromRPC against the packet's sender, and nothing else changes the LRU
C19_UnsolicitedNeighborsToLRU ==
    [][/\ (pcRead = "route" /\ pkt.kind = NeighborsPacket /\ pcRead' = "read")
            => /\ tab' = tab
               /\ unsolicitedNodes' = unsolicitedNodes
               /\ Len(gotnodes') = Len(gotnodes) + 1
               /\ gotnodes'[Len(gotnodes')].nodes = pkt.nodes
               /\ gotnodes'[Len(gotnodes')].addr.ip = pkt.ip
       /\ (gotnodes # << >> /\ gotnodes' = Tail(gotnodes))
            => /\ tab' = tab
               /\ unsolicitedNodes' = unsolicitedNodes
                     \cup { rn.id : rn \in { x \in Elems(Head(gotnodes).nodes) :
                                                Valid(x, Head(gotnodes).addr.ip) } }
       /\ unsolicitedNodes' # unsolicitedNodes => (gotnodes # << >> /\ gotnodes' = Tail(gotnodes))
       /\ (gotreply # << >> /\ gotreply' = Tail(gotreply)
              /\ Head(gotreply).data.kind = NeighborsPacket) => tab' = tab]_vars

\* the LRU holds the valid entries of an unsolicited packet from the peer's
\* address, and none of the others
C19_Witness ==
    /\ unsolicitedNodes = {21, 27}
    /\ gotnodes = << >>

\* every request of the Resolve call failed, or n has no key for the lookup
AllFailed(r) ==
    LET newer == r.intable # NoNode /\ r.intable.seq > r.n.seq
    IN /\ RequestENROutcome(r.n, r.r1).err # ErrNil
       /\ newer => RequestENROutcome(r.intable, r.r2).err # ErrNil
       /\ \/ ~r.hasKey
          \/ \A i \in 1..Len(r.result) :
                \/ r.result[i].node.id # r.n.id
                \/ RequestENROutcome(r.result[i].node, r.result[i].reply).err # ErrNil

Dispatched(r) == pcLoop = "select" /\ gotreply # << >> /\ r = Head(gotreply) /\ gotreply' = Tail(gotreply)

\* the places of plist whose matcher has the kind, ip and port of r
Addressed(r) == { i \in 1..Len(plist) : Matches(matchers[plist[i]], r) }

\* C22: a reply taken from gotreply is handed to the callback of every
\* matcher in the list with its kind, ip and port (the matcher's reply field
\* is then that reply), the ones behind a matcher it completed included
C22_EveryAddressedMatcherInvoked ==
    [][\A r \in Elems(gotreply) :
          Dispatched(r) => \A i \in Addressed(r) : matchers'[plist[i]].reply = r.data]_vars

\* C24: a reply is handed to a matcher (its reply field set, its callback's
\* counters or completion changed) only if its sender's node ID, ip and port
\* and its kind are the matcher's from, ip, port and ptype
C24_DeliveredOnlyFromTheNode ==
    [][\A r \in Elems(gotreply) :
          Dispatched(r) =>
             \A m \in 1..Len(matchers) :
                matchers'[m] # matchers[m] =>
                   /\ r.from = matchers[m].from
                   /\ Matches(matchers[m], r)]_vars

\* how often matcher m stands in list l
Listed(l, m) == Cardinality({ i \in 1..Len(l) : l[i] = m })

\* C25: no matcher stands in the list twice, a matcher in the list has had no
\* value sent to its errc, and a matcher out of the list that has left the
\* channel has had exactly one: nil, errTimeout, errClockWarp or errClosed
C25_MatcherStates ==
    \A m \in 1..Len(matchers) :
       /\ Listed(plist, m) <= 1
       /\ Listed(plist, m) = 1 => matchers[m].errc = << >>
       /\ (Listed(plist, m) = 0 /\ Listed(addReplyMatcher.q, m) = 0)
             => /\ Len(matchers[m].errc) = 1
                /\ matchers[m].errc[1] \in {ErrNil, errTimeout, errClockWarp, errClosed}

\* the matchers whose callback took the reply of this step as theirs: the
\* ones sent nil, and the findnode matchers that counted its nodes
MatchedBy ==
    { m \in 1..Len(matchers) :
        \/ Has(matchers'[m].errc, ErrNil) /\ ~Has(matchers[m].errc, ErrNil)
        \/ matchers'[m].nreceived > matchers[m].nreceived }

\* handleReply returns true / false to verifyPong in this step
handleReplyTrue == pcRead = "waitMatched" /\ pcRead' = "read"
handleReplyFalse == pcRead \in {"read", "waitMatched"} /\ pcRead' = "route"

\* what loop answers on r.matched is whether some callback took the reply,
\* and handleReply returns that answer
AnswerIsCallbacks ==
    /\ \A r \in Elems(gotreply) :
          Dispatched(r) => matchedCh' = Append(matchedCh, MatchedBy # {})
    /\ handleReplyTrue => matchedCh = << TRUE >>
    /\ (handleReplyFalse /\ pcRead = "waitMatched") => matchedCh = << FALSE >>

Sent(m, e) == Len(matchers'[m].errc) > Len(matchers[m].errc) /\ matchers'[m].errc[Len(matchers'[m].errc)] = e

\* C26: a findnode matcher in the list is sent nil in the very step in which
\* the nodes it has counted, valid or not, first reach bucketSize; until then
\* it stays in the list unless it is sent errTimeout or errClockWarp
C26_FindnodeCompletesAtBucketSize ==
    [][\A m \in 1..Len(matchers) :
          (matchers[m].ptype = NeighborsPacket /\ Listed(plist, m) = 1) =>
             /\ Sent(m, ErrNil) <=> (matchers[m].nreceived < bucketSize
                                       /\ matchers'[m].nreceived >= bucketSize)
             /\ Listed(plist', m) = 0
                   => (Sent(m, ErrNil) \/ Sent(m, errTimeout) \/ Sent(m, errClockWarp))]_vars

\* a findnode matcher was kept over a first Neighbors packet and completed by
\* a second one that held invalid nodes: it counted more nodes than it kept
C26_Witness ==
    \E m \in 1..Len(matchers) :
       /\ matchers[m].ptype = NeighborsPacket
       /\ Has(matchers[m].errc, ErrNil)
       /\ Listed(plist, m) = 0
       /\ matchers[m].nreceived = 19
       /\ Len(matchers[m].nodes) < bucketSize

\* the timer goroutine runs resetTimeout past its first test in this step:
\* after the timeout case, or after a list update that finds the list's head
\* is not the matcher the timer was last set for
Rearmed ==
    \/ TimerFire
    \/ /\ TimerListUpdate
       /\ Head(listUpdate) # Nil
       /\ plist # << >>
       /\ nextTimeout # Head(plist)

\* the deadline of matcher m lies more than 2 x replyTimeout ahead
Far(m) == matchers[m].deadline - now > 2 * replyTimeout

\* C27: a matcher is sent errClockWarp only if its deadline lies more than
\* 2 x replyTimeout ahead, and when the timer is set anew every matcher of the
\* list whose deadline lies that far ahead (the clock was set back after it
\* was inserted) is sent errClockWarp
C27_WarpEviction ==
    [][\A m \in 1..Len(matchers) :
          /\ Sent(m, errClockWarp) => Far(m)
          /\ (Rearmed /\ Listed(plist, m) = 1 /\ Far(m)) => Sent(m, errClockWarp)]_vars

\* the timer goroutine stands in p.errc <- errTimeout for matcher m, which
\* its timeout case found expired
Overdue(m) == pcTimer = "sendTimeout" /\ Has(timerEl, m)

\* C28: a matcher is sent errTimeout only if the clock had reached its
\* deadline when the timeout case examined it, and never once a reply has
\* completed it; its deadline is set when loop takes it into the list, to that
\* time plus replyTimeout, and never again
C28_NoEarlyTimeout ==
    [][\A m \in 1..Len(matchers) :
          /\ Sent(m, errTimeout) => ((now >= matchers[m].deadline \/ Overdue(m))
                                       /\ ~Has(matchers[m].errc, ErrNil))
          /\ (~Overdue(m) /\ Overdue(m)') => now >= matchers[m].deadline
          /\ (Listed(plist, m) = 0 /\ Listed(plist', m) = 1)
                => matchers'[m].deadline = now + replyTimeout
          /\ Listed(plist, m) = 1 => matchers'[m].deadline = matchers[m].deadline]_vars

\* after the clock was set back one matcher was completed by replies before
\* its deadline and another timed out, once the clock had reached its own
C28_Witness ==
    /\ jumps > 0
    /\ \E m \in 1..Len(matchers) : matchers[m].errc = << ErrNil >> /\ now < matchers[m].deadline
    /\ \E m \in 1..Len(matchers) : Has(matchers[m].errc, errTimeout) /\ now >= matchers[m].deadline

\* the datagrams of kind k among the ones this step wrote
WrittenOf(k) == SelectSeq(Written, LAMBDA w : w.kind = k)

\* C30: a call's ensureBond writes a Ping exactly when the node's last ping is
\* more than bondExpiration old or its findnode failures exceed
\* maxFindnodeFailures; without the Ping the request is written in the same
\* step; with it the caller sleeps only once the Ping's matcher has a value,
\* for pingBackDelay, and the request is written only when the sleep is over
C30_EnsureBond ==
    [][/\ (pcCall.pc = "idle" /\ pcCall'.pc # "idle") =>
             LET n == pcCall'.n
                 pinged == WrittenOf(PingPacket) # << >>
             IN /\ pinged <=> (\/ Since(lastPing[<< n.id, n.ip >>]) > bondExpiration
                               \/ pcCall'.fails > maxFindnodeFailures)
                /\ pinged => (Len(Written) = 1 /\ pcCall'.pc = "bond")
                /\ ~pinged => (Len(Written) = 1 /\ pcCall'.pc = "await")
       /\ (pcCall.pc = "bond" /\ pcCall'.pc # "bond") =>
             /\ matchers[pcCall.m].errc # << >>
             /\ pcCall'.pc = "sleep"
             /\ pcCall'.until = now + pingBackDelay
             /\ out' = out
       /\ (pcCall.pc = "sleep" /\ out' # out) => now >= pcCall.until]_vars

\* a findnode on a node whose last ping is exactly bondExpiration old pinged
\* first, the node's failures being over the limit, slept once the Ping had
\* timed out and then wrote its Findnode
C30_Witness ==
    /\ Len(out) = 2
    /\ out[1].kind = PingPacket
    /\ out[2].kind = FindnodePacket
    /\ lastPing[<< Peer.id, Peer.ip >>] = At(0 - bondExpiration)
    /\ pcCall.fails > maxFindnodeFailures
    /\ matchers[1].errc = << errTimeout >>

\* how many matchers are sent errTimeout in this step
TimedOut == Cardinality({ m \in 1..Len(matchers) : Sent(m, errTimeout) })

\* checkClockDrift is started in this step
DriftCheckStarted == ntpWarnTime' # ntpWarnTime

\* every timeout counts one; past ntpFailureThreshold, at the end of the
\* timeout case, the count starts anew, and checkClockDrift is started then
\* and only then if ntpWarningCooldown has passed since its last start; the
\* start removes no matcher but the timed out and ends neither goroutine
DriftWatch ==
    /\ TimedOut > 0 =>
          contTimeouts' = IF contTimeouts + TimedOut > ntpFailureThreshold /\ pcTimer' # "sendTimeout"
                          THEN 0 ELSE contTimeouts + TimedOut
    /\ DriftCheckStarted <=>
          /\ TimedOut > 0
          /\ pcTimer' # "sendTimeout"
          /\ contTimeouts + TimedOut > ntpFailureThreshold
          /\ Since(ntpWarnTime) >= ntpWarningCooldown
    /\ DriftCheckStarted =>
          /\ ntpWarnTime' = At(now)
          /\ pcLoop' = pcLoop
          /\ pcTimer' # "done"
          /\ \A m \in 1..Len(matchers) :
                (Listed(plist, m) = 1 /\ Listed(plist', m) = 0)
                   => (Sent(m, errTimeout) \/ Sent(m, errClockWarp))

\* C29: the drift watch, with the count set back to 0 by a reply only when a
\* callback accepted the reply (loop answers matched = true)
C29_ResetOnlyWhenMatched ==
    [][/\ DriftWatch
       /\ \A r \in Elems(gotreply) :
             (Dispatched(r) /\ contTimeouts' # contTimeouts)
                => (contTimeouts' = 0 /\ matchedCh' = Append(matchedCh, TRUE))]_vars

\* what the code does: the drift watch, with the count set back to 0 by a
\* reply exactly when some matcher of the list has the reply's kind, ip and
\* port, whether its callback accepts the reply or not
ResetWhenAddressed ==
    [][/\ DriftWatch
       /\ \A r \in Elems(gotreply) :
             Dispatched(r) => contTimeouts' = IF Addressed(r) # {} THEN 0 ELSE contTimeouts]_vars

\* checkClockDrift was started by the timeout that took the count past
\* ntpFailureThreshold, and a Pong no callback accepted then set back the
\* count of a further timeout
ResetUnaccepted ==
    /\ ntpWarnTime.set
    /\ ntpWarnTime.at > 0
    /\ contTimeouts = 0
    /\ errors[errUnsolicitedReply] > 0
    /\ \E m \in 1..Len(matchers) :
          matchers[m].reply # NoPkt /\ matchers[m].reply.tok # matchers[m].tok

Routed == pcRead = "route" /\ pcRead' = "read"

\* readLoop sends a packet to the Unhandled sink
Forwarded == unhandled'.q # unhandled.q

\* what readLoop does with an unsolicited Pong or Neighbors: the Pong's key
\* goes to gotkey unless unknownKeys holds it, and is held from then on; the
\* Neighbors' nodes go to gotnodes with the address they came from
RoutedPongNeighbors ==
    /\ pkt.kind = PongPacket =>
          /\ gotkey' = IF pkt.id \in unknownKeys THEN gotkey ELSE Append(gotkey, pkt.id)
          /\ pkt.id \in unknownKeys'
          /\ gotnodes' = gotnodes
    /\ pkt.kind = NeighborsPacket =>
          /\ gotnodes' = Append(gotnodes, [addr |-> [ip |-> pkt.ip, port |-> pkt.port],
                                          nodes |-> pkt.nodes])
          /\ gotkey' = gotkey

\* C31: on errUnsolicitedReply a Pong's sender key is sent to gotkey at most
\* once while unknownKeys holds it, a Neighbors' node list is sent to
\* gotnodes, and any other unsolicited reply (ENRResponse) is forwarded to
\* the Unhandled sink when one is set
C31_UnsolicitedRouting ==
    [][Routed =>
          /\ RoutedPongNeighbors
          /\ (pkt.kind = ENRResponsePacket /\ unhandled.cfg)
                => unhandled'.q = Append(unhandled.q, pkt)]_vars

\* C31, as the code has it: an unsolicited ENRResponse is logged and goes
\* nowhere; the sink gets a packet only when handling it failed with another
\* error than errUnsolicitedReply
C31_UnsolicitedRoutingLogged ==
    [][/\ Routed =>
             /\ RoutedPongNeighbors
             /\ pkt.kind = ENRResponsePacket =>
                   (gotkey' = gotkey /\ gotnodes' = gotnodes /\ unhandled' = unhandled)
       /\ Forwarded =>
             /\ unhandled.cfg
             /\ pcRead = "read" /\ pcRead' = "read"
             /\ errors'[errUnsolicitedReply] = errors[errUnsolicitedReply]]_vars

\* with the sink set, two unsolicited replies of the peer's key were routed,
\* the key went to gotkey once and the sink got nothing
C31_Witness ==
    /\ unhandled.cfg /\ unhandled.q = << >>
    /\ pcRead = "read"
    /\ errors[errUnsolicitedReply] = 2
    /\ unknownKeys = {Peer.id}
    /\ gotkey = << Peer.id >>
    /\ gotnodes = << >> /\ unsolicitedNodes = {}

\* handlePacket returns for a reply: accepted (matched), or errUnsolicitedReply
ReplyAccepted == pcRead = "waitMatched" /\ pcRead' = "read"
ReplyUnsolicited == pcRead \in {"read", "waitMatched"} /\ pcRead' = "route"

\* C32: every inbound packet rejected with a validation error (expired,
\* unknown node, unsolicited reply, bad hash, bad signature, malformed RLP)
\* adds exactly one to the counter of t.errors keyed by that error and to no
\* other; an accepted packet adds to none
C32_RejectedCountedOnce ==
    [][(npackets' # npackets \/ pcRead = "waitMatched") =>
          /\ \A e \in DecodeErrors : RecvBad(e) => errors' = Count(e)
          /\ \A d \in Requests(PingPacket) :
                RecvPing(d) => errors' = (IF d.expired THEN Count(errExpired) ELSE errors)
          /\ \A d \in GatedRequests :
                Handled(d) => errors' = (IF d.expired THEN Count(errExpired)
                                         ELSE IF Unbonded(d) THEN Count(errUnknownNode)
                                         ELSE errors)
          /\ \A d \in Datagrams({PongPacket}, Sources, {TRUE}) \cup NeighborsIn(Sources, {TRUE}, {Mixed}) :
                RecvReply(d) => errors' = Count(errExpired)
          /\ ReplyUnsolicited => errors' = Count(errUnsolicitedReply)
          /\ ReplyAccepted => errors' = errors
          /\ (pcRead = "read" /\ pcRead' = "waitMatched") => errors' = errors]_vars

\* C33: every read and write of t.errors and of t.unsolicitedNodes is made
\* by a goroutine holding t.mutex, so none is made while another goroutine
\* holds it: no write of either while a caller of Errors or LenUnsolicited
\* is inside its read
C33_AccessUnderMutex ==
    [][/\ errors' # errors => mutex = Unlocked
       /\ unsolicitedNodes' # unsolicitedNodes => mutex = Unlocked]_vars

\* readLoop returns in this step
ReadLoopExits == pcRead # "done" /\ pcRead' = "done"

\* C34: readLoop stops only on a permanent read error: a read that gave a
\* temporary error, a datagram that does not decode or a packet preverify
\* rejects leaves it running, on its way to the next read; when it exits, the
\* Unhandled sink, if set, is closed, once, and it is closed at no other time
C34_ReadLoopStopsOnPermanentError ==
    [][/\ ReadLoopExits => (pcRead = "read" /\ connClosed /\ npackets' = npackets)
       /\ npackets' # npackets => pcRead' \in {"read", "waitMatched", "route"}
       /\ (pcRead \in {"waitMatched", "route"} /\ pcRead' # pcRead) => pcRead' \in {"read", "route"}
       /\ unhandled'.closes = unhandled.closes + (IF ReadLoopExits /\ unhandled.cfg THEN 1 ELSE 0)
       /\ unhandled.closes <= 1 /\ unhandled'.closes <= 1]_vars

\* readLoop has exited and closed the sink, after a temporary read error and
\* a datagram that did not decode, which the sink was sent
C34_Witness ==
    /\ pcRead = "done"
    /\ unhandled.cfg /\ unhandled.closes = 1
    /\ npackets = 2
    /\ unhandled.q = << [kind |-> "undecoded", err |-> errBadHash] >>
    /\ out = << >>
    /\ \A k \in ErrorKeys : errors[k] = 0

\* the deadlines of the list are in non-decreasing order
Sorted(l) == \A i \in 1..Len(l) : \A j \in i..Len(l) : matchers[l[i]].deadline <= matchers[l[j]].deadline

\* loop and its timer goroutine both wait in their select and the timer
\* goroutine has taken every list update
Settled == pcLoop = "select" /\ pcTimer = "select" /\ listUpdate = << >>

\* C35: whenever the list is non-empty and the timer goroutine has processed
\* all list updates, the timer is armed for the head of the list, at the
\* head's deadline, and the head's deadline is the earliest of the list, the
\* list being in non-decreasing deadline order (the clock not jumping back)
C35_TimerAtHeadDeadline ==
    /\ Sorted(plist)
    /\ (plist # << >> /\ Settled) =>
          /\ timer.armed
          /\ nextTimeout = Head(plist)
          /\ timer.at = matchers[Head(plist)].deadline

\* two matchers of different deadlines are listed, the timer goroutine has
\* taken both updates and the timer runs for the first
C35_Witness ==
    /\ Len(plist) = 2 /\ Settled
    /\ matchers[plist[1]].deadline < matchers[plist[2]].deadline
    /\ timer.armed

\* a send that waits for good: errc is full and nobody receives from it
\* (the matcher of a ping-back, whose errc sendPing's caller drops)
WaitsForever(m) == ~ErrcFree(matchers, m) /\ ~matchers[m].awaited

\* C36: no send on a matcher's errc blocks for good: the timer goroutine
\* never waits in p.errc <- errTimeout or nextTimeout.errc <- errClockWarp,
\* which it does holding loop's mutex, on an errc nobody receives from, and
\* neither does loop in a send of its close case
C36_NoSendBlocks ==
    /\ pcTimer \in {"sendTimeout", "sendWarp"} => ~WaitsForever(Head(timerEl))
    /\ pcLoop = "closeNotify" => \A i \in 1..Len(plist) : ~WaitsForever(plist[i])

\* ------------------------------------------------- the endpoint of a Ping

\* the endpoints a Ping can state in its From field: the sender's own, and
\* ones that are no source address of any datagram
Stated == { [ip |-> Peer.ip, port |-> Peer.port], [ip |-> 3, port |-> 1], [ip |-> 1, port |-> 3] }

\* Ping packets: a Ping carries From, the endpoint the sender states
PingsIn(sources, exp) ==
    { [kind |-> PingPacket, id |-> s.id, ip |-> s.ip, port |-> s.port, expired |-> e,
       tok |-> 0, from |-> f] : s \in sources, e \in exp, f \in Stated }

\* readLoop taking Pings with every stated endpoint and the Pongs to the
\* ping-backs, loop and its timer goroutine, the clock
NextPing ==
    \/ \E d \in PingsIn(Sources, BOOLEAN) : RecvPing(d)
    \/ \E d \in Datagrams({PongPacket}, Sources, {FALSE}) : RecvReply(d)
    \/ ReplyMatched
    \/ LoopAdd
    \/ LoopReply
    \/ TimerFire
    \/ TimerListUpdate
    \/ Tick

PingSpec == InitH /\ [][NextPing]_vars

\* the datagrams handlePing writes in a step
PingWritten == { out'[i] : i \in Len(out) + 1 .. Len(out') }

\* C37: the node handlePing adds to the table, or leaves to the callback of
\* its ping-back, has the ID of the signing key and the IP and UDP port the
\* datagram came from, never those of the Ping's From; the table holds only
\* such nodes; the Pong and the ping-back go to the observed address
C37_HandlePingUsesObservedSource ==
    [][\A d \in PingsIn(Sources, {FALSE}) :
        RecvPing(d) =>
            LET n == [id |-> d.id, ip |-> d.ip, port |-> d.port]
            IN /\ tab' \subseteq tab \cup {n}
               /\ tab' \subseteq Sources
               /\ \/ n \in tab' /\ matchers' = matchers
                  \/ /\ tab' = tab
                     /\ Len(matchers') = Len(matchers) + 1
                     /\ matchers'[Len(matchers')].cb = n
               /\ \E w \in PingWritten : w.kind = PongPacket
               /\ \A w \in PingWritten : w.ip = d.ip /\ w.port = d.port]_vars

\* Pings have been handled whatever endpoint they stated: the table holds a
\* sender at its observed address, the ping-back of another is registered
C37_Witness ==
    /\ Peer \in tab
    /\ \E i \in 1..Len(plist) : matchers[plist[i]].cb \in Sources \ tab
    /\ \E i \in 1..Len(out) : out[i].kind = PongPacket /\ out[i].ip = 2

\* C38: Resolve(n) returns no record older than its input: whatever the
\* three attempts come to, the returned node's sequence number is at least
\* n.Seq()
C38_NeverOlderThanInput == resolve.called => resolve.ret.seq >= resolve.n.seq

\* ------------------------------------------------------- Close, repeated

\* callers of Ping and of Close, the first Close and further ones during
\* and after it, loop, its timer goroutine, readLoop ending on the closed
\* socket, the clock
NextCloseAgain ==
    \/ Ping
    \/ AwaitErrc
    \/ LoopAdd
    \/ LoopClose
    \/ LoopCloseNotify
    \/ TimerFire
    \/ TimerSend
    \/ TimerListUpdate
    \/ TimerClose
    \/ Tick
    \/ CloseCancel
    \/ CloseConn
    \/ CloseReturn
    \/ CloseAgain
    \/ CloseAgainReturn
    \/ ReadErr

CloseAgainSpec == Init /\ [][NextCloseAgain]_vars

\* a Close() has returned
CloseReturned == pcClose = "returned" \/ closeOnce.again = "returned"

\* C39: however many times Close() is called, one after another or at the
\* same time, the close context is cancelled once, the socket closed once
\* and the table closed once, and no Close() returns before loop and
\* readLoop have exited
C39_CloseOnceAndWaits ==
    /\ closeOnce.cancels <= 1 /\ closeOnce.conns <= 1 /\ closeOnce.tabs <= 1
    /\ CloseReturned =>
          /\ pcLoop = "done" /\ pcRead = "done"
          /\ closeOnce.cancels = 1 /\ closeOnce.conns = 1 /\ closeOnce.tabs = 1

\* a second Close() that was called while the first was at work has returned
C39_Witness ==
    /\ pcClose = "returned"
    /\ closeOnce.again = "returned"
    /\ Len(matchers) > 0

\* --------------------------------------------------- sendPing, step by step

\* v4wire.Encode's error
errEncode == "encode error"

\* &replyMatcher{errc: errc}: the matcher sendPing returns when Encode fails
BareMatcher(e) ==
    [NewMatcher(NoNode, "none", NoNode, TRUE) EXCEPT !.tok = 0, !.errc = << e >>]

\* sendPing when Encode fails: the error in errc, and return
SendPingEncodeFails ==
    /\ pcCall.pc = "idle"
    /\ Len(matchers) < MaxMatchers
    /\ matchers' = Append(matchers, BareMatcher(errEncode))
    /\ UNCHANGED << addReplyMatcher, plist, listUpdate, gotreply, matchedCh, loopVars,
                    timerVars, out >>
    /\ UNCHANGED << closeVars, apiVars, readVars, dbVars, clockVars >>

\* what sendPing does once the Ping is encoded, in its order
sendPingWriteFirst == << "write", "pending" >>
sendPingSteps == << "pending", "write" >>

\* sendPing(toid, toaddr, nil) on the peer when Encode succeeds: m stands
\* for the hash of the packet
SendPingEncoded ==
    /\ pcCall.pc = "idle"
    /\ Len(matchers) < MaxMatchers
    /\ pcCall' = [api |-> "sendPing", pc |-> "step", m |-> Len(matchers) + 1, n |-> Peer,
                  fails |-> 0, until |-> 0, todo |-> sendPingSteps]
    /\ UNCHANGED << regVars, closeVars, unsolicitedNodes, resolve, lookup, readVars, dbVars,
                    clockVars, out >>

\* the next of sendPing's steps: t.pending(...), or t.write(...)
SendPingStep ==
    /\ pcCall.pc = "step"
    /\ IF Head(pcCall.todo) = "pending"
       THEN /\ pending(NewMatcher(pcCall.n, PongPacket, NoNode, TRUE))
            /\ UNCHANGED out
       ELSE /\ out' = Append(out, [kind |-> PingPacket, ip |-> pcCall.n.ip, port |-> pcCall.n.port,
                                   tok |-> pcCall.m, n |-> << >>, by |-> "caller"])
            /\ UNCHANGED << matchers, addReplyMatcher >>
    /\ pcCall' = IF Tail(pcCall.todo) = << >> THEN NoCall ELSE [pcCall EXCEPT !.todo = Tail(@)]
    /\ UNCHANGED << plist, listUpdate, gotreply, matchedCh, loopVars, timerVars >>
    /\ UNCHANGED << closeVars, unsolicitedNodes, resolve, lookup, readVars, dbVars, clockVars >>

\* the remote answers a Ping it was sent: the Pong carries the Ping's hash
PongsToPings ==
    { [kind |-> PongPacket, id |-> Peer.id, ip |-> out[i].ip, port |-> out[i].port,
       expired |-> FALSE, tok |-> out[i].tok] : i \in { j \in 1..Len(out) : out[j].kind = PingPacket } }

\* callers of sendPing, with Encode failing or not, Close, loop and its
\* timer goroutine, readLoop taking the Pongs to the Pings written, the clock
NextSendPing ==
    \/ SendPingEncodeFails
    \/ SendPingEncoded
    \/ SendPingStep
    \/ AwaitErrc
    \/ \E d \in PongsToPings : RecvReply(d)
    \/ ReplyMatched
    \/ Route
    \/ LoopAdd
    \/ LoopReply
    \/ LoopClose
    \/ LoopCloseNotify
    \/ TimerFire
    \/ TimerListUpdate
    \/ TimerClose
    \/ Tick
    \/ CloseCancel

SendPingSpec == Init /\ [][NextSendPing]_vars

\* matcher m has been through pending(): it is on addReplyMatcher or in the
\* list, or it has its result (errClosed at once, or a later one)
Handed(m) ==
    /\ m \in 1..Len(matchers)
    /\ \/ \E i \in 1..Len(addReplyMatcher.q) : addReplyMatcher.q[i] = m
       \/ \E i \in 1..Len(plist) : plist[i] = m
       \/ matchers[m].errc # << >>

\* the matchers sendPing returned for a Ping that did not encode
EncodeFailed == { m \in 1..Len(matchers) : matchers[m].errc # << >> /\ matchers[m].errc[1] = errEncode }

\* C40: the matcher of a Ping that did not encode holds the encode error
\* and nothing else, is neither queued for the list nor in it, and no
\* datagram was written for it; a Ping that is written has had its matcher
\* handed to pending() before, so when a Pong for it arrives the matcher is
\* with the registry or has failed with errClosed already
C40_SendPingOrder ==
    /\ \A m \in EncodeFailed :
          /\ matchers[m].errc = << errEncode >>
          /\ \A i \in 1..Len(addReplyMatcher.q) : addReplyMatcher.q[i] # m
          /\ \A i \in 1..Len(plist) : plist[i] # m
          /\ \A i \in 1..Len(out) : out[i].tok # m
    /\ Len(out) <= Len(matchers) - Cardinality(EncodeFailed)
    /\ \A i \in 1..Len(out) : out[i].kind = PingPacket => Handed(out[i].tok)
    /\ pkt.kind = PongPacket => Handed(pkt.tok)

\* one Ping did not encode; another was written and its Pong has arrived
\* and found the matcher
C40_Witness ==
    /\ EncodeFailed # {}
    /\ \E m \in 1..Len(matchers) : matchers[m].errc = << ErrNil >> /\ matchers[m].tok = m
    /\ \E i \in 1..Len(out) : out[i].kind = PingPacket
====
